---- MODULE Spec2Model ----
(***************************************************************************)
(* Model of the conclave API server (conclave_api): the SQLite-backed game *)
(* repository (database.rs), the room registry and broadcast channels      *)
(* (state.rs) and the request / socket handlers that sequence them         *)
(* (handlers.rs, websocket.rs).                                            *)
(*                                                                         *)
(* The store is SQLite behind an sqlx pool.  A transaction opened with     *)
(* pool.begin() is a deferred transaction: its first SELECT fixes the      *)
(* snapshot it reads, and its first write succeeds only when no other      *)
(* connection has committed since that snapshot (otherwise the statement   *)
(* fails with SQLITE_BUSY and the `?` operator drops, i.e. rolls back, the *)
(* transaction).  Writes become visible to other connections at commit.    *)
(***************************************************************************)
EXTENDS Integers, FiniteSets, Sequences, TLC

\* ------------------------------------------------------------------ bounds
\* Player ids are fresh UUIDs; the model draws them from 1..MaxPlayerIds.
MaxPlayerIds == 4
\* Room channels are created by broadcast::channel; the model numbers them
\* 1..MaxChannels.
MaxChannels == 2
\* Messages a channel accepts in one behaviour.
MaxEvents == 3
\* Messages a channel retains for its receivers; broadcast::channel(100) in
\* the program.
ChannelCapacity == 2
\* Rows of life_changes written in one behaviour.
MaxLifeChanges == 2
\* Requests the handlers of the service take in one behaviour.
MaxRequests == 3

\* -------------------------------------------------------- program constants
MAX_PLAYERS_PER_GAME == 8
MaxCommanderDamage == 999
MaxLifeChange == 100

\* ------------------------------------------------------------ input domains
Users == {"u1", "u2", "u3"}
\* game ids are fresh UUIDs; the model hands them out in this order
GameIdOrder == <<"g1", "g2">>
GameIds == {"g1", "g2"}
\* the game the requests name
ReqGameIds == {"g1"}
Names == {"Pod1"}
StartingLives == {40}
Procs == {"a", "b"}
PlayerIds == 1..MaxPlayerIds
\* player ids named in requests: an id is unknown to the store before it is
\* allocated and after its player left
ReqPlayerIds == PlayerIds
\* players between whom update_commander_damage is called
DamageFromIds == {1, 2}
DamageToIds == {2}
\* the caller of the single-caller specification
Solo == {"a"}
CommanderNumbers == {1, 2, 3}
DamageInputs == {-1, 7, 1000}
\* callers of the room registry, and the users they name
HubUsers == {"u1", "u2"}
\* websocket connections
Conns == {"c1", "c2"}
ChanIds == 1..MaxChannels

VARIABLES
    games,              \* table games: set of rows
    players,            \* table players: set of rows
    commander_damage,   \* table commander_damage: set of rows
    life_changes,       \* table life_changes: rows in the order written
    has_partner,        \* players whose last toggle_partner enabled partner
    nextPlayerId,       \* next fresh player id (Uuid::new_v4)
    proc,               \* per caller: position in its operation and locals
    game_rooms,         \* AppState.game_rooms: game id -> GameRoom
    chans,              \* per broadcast channel: the messages it accepted
    nextChan,           \* next fresh channel (broadcast::channel)
    conns,              \* per connection: its receiver and what it relayed
    cleanups,           \* games whose delayed room cleanup is spawned
    served              \* requests the handlers have taken

storeVars == <<games, players, commander_damage, life_changes, has_partner,
               nextPlayerId>>
roomVars == <<game_rooms, chans, nextChan, conns, cleanups>>
hubVars == <<roomVars, served>>
vars == <<games, players, commander_damage, life_changes, has_partner,
          nextPlayerId, proc, game_rooms, chans, nextChan, conns, cleanups,
          served>>

\* ------------------------------------------------------------------ helpers
\* the rows a transaction reads: no operation reads commander_damage rows
\* inside its transaction
EmptySnap == [games |-> {}, players |-> {}]

CurrentDb == [games |-> games, players |-> players]

\* h is the handler the caller runs ("none" when the repository is called
\* directly), op the repository operation it is in, before what the caller
\* read before its first call
Idle == [pc |-> "idle", h |-> "none", op |-> "none", game |-> "none",
         name |-> "none", user |-> "none", player |-> 0, to |-> 0, num |-> 0,
         dmg |-> 0, amount |-> 0, enable |-> FALSE, snap |-> EmptySnap, stale |-> FALSE,
         result |-> "none", out |-> 0, before |-> 0]

\* the operation returned res (Ok, or the message of its Err); its
\* transaction, if any, is committed or dropped
Done(t, res) == [t EXCEPT !.pc = "ret", !.snap = EmptySnap, !.stale = FALSE,
                          !.result = res]

\* the ApiError variant behind a result (errors.rs): every message the
\* repository builds itself is a BadRequest
ErrorKind(res) ==
    IF res = "ok" THEN "Ok"
    ELSE IF res = "Game not found" THEN "GameNotFound"
    ELSE IF res = "Player not found" THEN "PlayerNotFound"
    ELSE IF res = "Game is not active" THEN "GameNotActive"
    ELSE IF res = "Database error" THEN "Database"
    ELSE "BadRequest"

\* pool.begin() followed by the first SELECT: the snapshot the transaction
\* reads for the rest of its life
Begin(t) == [t EXCEPT !.snap = CurrentDb, !.stale = FALSE]

\* SQLite lets a transaction that has read write only if nobody committed
\* since its snapshot
SnapshotStale(t) == t.stale

InTx(t) == t.pc \in {"join", "leave", "toggle", "cmd"}

\* (variant) a store that lets a transaction write over a snapshot that other
\* commits have made stale
AfterCommitKeep(p, t) == [proc EXCEPT ![p] = t]

\* commit of caller p: every other open transaction's snapshot is now stale;
\* all such a transaction can still do is fail at its first write
AfterCommit(p, t) ==
    [q \in Procs |->
        IF q = p THEN t
        ELSE IF InTx(proc[q])
            THEN [proc[q] EXCEPT !.snap = EmptySnap, !.stale = TRUE]
        ELSE proc[q]]

\* SELECT * FROM games WHERE id = ?   (fetch_optional)
get_game_by_id(db, g) == {r \in db.games : r.id = g}

\* SELECT ... FROM players WHERE game_id = ?
PlayersOf(db, g) == {r \in db.players : r.game_id = g}

\* SELECT COUNT(*) FROM players WHERE id = ? AND game_id = ?  > 0
PlayerInGame(db, pid, g) == \E r \in db.players : r.id = pid /\ r.game_id = g

CdRow(g, from, to, num, dmg) ==
    [game_id |-> g, from_player_id |-> from, to_player_id |-> to,
     commander_number |-> num, damage |-> dmg]

SameKey(r, s) ==
    /\ r.game_id = s.game_id
    /\ r.from_player_id = s.from_player_id
    /\ r.to_player_id = s.to_player_id
    /\ r.commander_number = s.commander_number

\* no entry in game_rooms
NoRoom == [sender |-> 0, connected_users |-> {}]

\* a connection that has not subscribed: pc is the position of handle_socket
\* and then of its sender_task, recv what the last recv() of sender_task
\* returned, reader the state of its receiver_task, errors the Error frames
\* written to the client and error_msg the message of the last one, and
\* snapshot the number of committed life changes that the game state read by
\* send_initial_game_state reflects
NoConn == [pc |-> "idle", game |-> "none", open |-> TRUE, rx_chan |-> 0,
           rx_next |-> 0, delivered |-> <<>>, recv |-> "none",
           reader |-> "none", errors |-> 0, error_msg |-> "none",
           snapshot |-> 0]

\* the task that runs handle_socket for a connection and, once it streams,
\* its receiver_task
TaskOf(c) == IF c = "c1" THEN "a" ELSE "b"

ConnOf(p) == CHOOSE c \in Conns : TaskOf(c) = p

\* ------------------------------------------------------------------ events
\* the messages handlers hand to broadcast_to_game (WebSocketMessage)
Event(type, g) ==
    [type |-> type, game_id |-> g, player_id |-> 0, to_player_id |-> 0,
     commander_number |-> 0, value |-> 0, change |-> 0, has_partner |-> FALSE]

LifeUpdate(g, player_id, new_life, change_amount) ==
    [Event("LifeUpdate", g) EXCEPT !.player_id = player_id,
                                   !.value = new_life,
                                   !.change = change_amount]

PlayerJoined(g, player_id) ==
    [Event("PlayerJoined", g) EXCEPT !.player_id = player_id]

PlayerLeft(g, player_id) ==
    [Event("PlayerLeft", g) EXCEPT !.player_id = player_id]

\* winner is the id of the winning player, 0 for None
GameEnded(g, winner) == [Event("GameEnded", g) EXCEPT !.player_id = winner]

CommanderDamageUpdate(g, from, to, num, new_damage, damage_amount) ==
    [Event("CommanderDamageUpdate", g) EXCEPT
        !.player_id = from, !.to_player_id = to, !.commander_number = num,
        !.value = new_damage, !.change = damage_amount]

PartnerToggled(g, player_id, enable_partner) ==
    [Event("PartnerToggled", g) EXCEPT !.player_id = player_id,
                                       !.has_partner = enable_partner]

\* the snapshot handle_get_game_state publishes to the room
GameStarted(g) == Event("GameStarted", g)

\* ------------------------------------------------------------------ Init
Init ==
    /\ games = {}
    /\ players = {}
    /\ commander_damage = {}
    /\ life_changes = <<>>
    /\ has_partner = {}
    /\ nextPlayerId = 1
    /\ proc = [p \in Procs |-> Idle]
    /\ game_rooms = [g \in GameIds |-> NoRoom]
    /\ chans = [ch \in ChanIds |-> <<>>]
    /\ nextChan = 1
    /\ conns = [c \in Conns |-> NoConn]
    /\ cleanups = {}
    /\ served = 0

\* ============================================================ GameRepository
\* ---------------------------------------------------------------- join_game
\* (variant) join_game_in_tx without the check "user is already in game"
JoinErrorNoConflict(db, g, u) ==
    IF get_game_by_id(db, g) = {} THEN "Game not found"
    ELSE IF \E r \in get_game_by_id(db, g) : r.status = "finished"
        THEN "Cannot join finished game"
    ELSE IF Cardinality(PlayersOf(db, g)) >= MAX_PLAYERS_PER_GAME
        THEN "Game is full"
    ELSE "ok"

\* (variant) join_game_in_tx without the check of the player count
JoinErrorNoCapacity(db, g, u) ==
    IF get_game_by_id(db, g) = {} THEN "Game not found"
    ELSE IF \E r \in get_game_by_id(db, g) : r.status = "finished"
        THEN "Cannot join finished game"
    ELSE IF Cardinality({r \in PlayersOf(db, g) : r.clerk_user_id = u}) > 0
        THEN "User already in game"
    ELSE "ok"

\* (variant) join_game_in_tx without the check of the game's status
JoinErrorNoStatus(db, g, u) ==
    IF get_game_by_id(db, g) = {} THEN "Game not found"
    ELSE IF Cardinality({r \in PlayersOf(db, g) : r.clerk_user_id = u}) > 0
        THEN "User already in game"
    ELSE IF Cardinality(PlayersOf(db, g)) >= MAX_PLAYERS_PER_GAME
        THEN "Game is full"
    ELSE "ok"

\* the checks of join_game_in_tx, on the rows the transaction reads
JoinError(db, g, u) ==
    IF get_game_by_id(db, g) = {} THEN "Game not found"
    ELSE IF \E r \in get_game_by_id(db, g) : r.status = "finished"
        THEN "Cannot join finished game"
    ELSE IF Cardinality({r \in PlayersOf(db, g) : r.clerk_user_id = u}) > 0
        THEN "User already in game"
    ELSE IF Cardinality(PlayersOf(db, g)) >= MAX_PLAYERS_PER_GAME
        THEN "Game is full"
    ELSE "ok"

\* (variant) position = player_count
NewPlayerAtCount(db, g, u, id) ==
    [id |-> id, game_id |-> g, clerk_user_id |-> u,
     current_life |-> (CHOOSE r \in get_game_by_id(db, g) : TRUE).starting_life,
     position |-> Cardinality(PlayersOf(db, g)),
     is_eliminated |-> FALSE]

\* position = (player_count + 1), current_life = game.starting_life
\* (variant) the new player starts at 20 life whatever the game's
\* starting_life
NewPlayerDefaultLife(db, g, u, id) ==
    [id |-> id, game_id |-> g, clerk_user_id |-> u,
     current_life |-> 20,
     position |-> Cardinality(PlayersOf(db, g)) + 1,
     is_eliminated |-> FALSE]

NewPlayer(db, g, u, id) ==
    [id |-> id, game_id |-> g, clerk_user_id |-> u,
     current_life |-> (CHOOSE r \in get_game_by_id(db, g) : TRUE).starting_life,
     position |-> Cardinality(PlayersOf(db, g)) + 1,
     is_eliminated |-> FALSE]

\* (variant) only the rows from the new player to the existing players
initialize_commander_damage_one_way(db, g, id) ==
    LET existing_players == {r.id : r \in {x \in PlayersOf(db, g) : x.id # id}}
    IN  {CdRow(g, id, e, 1, 0) : e \in existing_players}

\* the rows initialize_commander_damage_for_player_in_tx inserts: commander 1,
\* damage 0, both directions between the new player and every other player
\* (variant) the rows of commander 1, and the rows of commander 2 from the
\* existing players who have partner enabled
initialize_commander_damage_with_partner(db, g, id) ==
    LET existing_players == {r.id : r \in {x \in PlayersOf(db, g) : x.id # id}}
    IN  {CdRow(g, id, e, 1, 0) : e \in existing_players}
        \cup {CdRow(g, e, id, 1, 0) : e \in existing_players}
        \cup {CdRow(g, e, id, 2, 0) : e \in existing_players \cap has_partner}

initialize_commander_damage_for_player_in_tx(db, g, id) ==
    LET existing_players == {r.id : r \in {x \in PlayersOf(db, g) : x.id # id}}
    IN  {CdRow(g, id, e, 1, 0) : e \in existing_players}
        \cup {CdRow(g, e, id, 1, 0) : e \in existing_players}

\* a plain INSERT fails on the unique key (game, from, to, commander)
InsertConflict(table, rows) == \E r \in rows : \E s \in table : SameKey(r, s)

\* player ids left for the joins and creations under way
IdsLeft ==
    nextPlayerId + Cardinality({q \in Procs : proc[q].pc \in {"join", "create"}})
        <= MaxPlayerIds

\* pool.begin() and the reads of join_game_in_tx, for the call t0
JoinBegin(t0) ==
    LET t == Begin([t0 EXCEPT !.op = "join_game"])
        e == JoinError(t.snap, t.game, t.user)
    IN  IF e = "ok" THEN [t EXCEPT !.pc = "join"] ELSE Done(t, e)

\* join_game called on its own
join_game_begin(p, g, u) ==
    /\ proc[p].pc = "idle"
    /\ IdsLeft
    /\ proc' = [proc EXCEPT ![p] =
          JoinBegin([Idle EXCEPT !.game = g, !.user = u])]
    /\ UNCHANGED <<storeVars, hubVars>>

\* join_game: the INSERTs of join_game_in_tx and tx.commit()
join_game_commit(p) ==
    /\ proc[p].pc = "join"
    /\ LET t == proc[p]
           row == NewPlayer(t.snap, t.game, t.user, nextPlayerId)
           cds == initialize_commander_damage_for_player_in_tx(
                      t.snap, t.game, nextPlayerId)
       IN  IF SnapshotStale(t) \/ InsertConflict(commander_damage, cds)
           THEN /\ proc' = [proc EXCEPT ![p] = Done(t, "Database error")]
                /\ UNCHANGED storeVars
           ELSE /\ players' = players \cup {row}
                /\ commander_damage' = commander_damage \cup cds
                /\ nextPlayerId' = nextPlayerId + 1
                /\ proc' = AfterCommit(p,
                      [Done(t, "ok") EXCEPT !.out = row.id])
                /\ UNCHANGED <<games, life_changes, has_partner>>
    /\ UNCHANGED hubVars

\* -------------------------------------------------------------- create_game
\* SELECT COUNT(*) FROM games WHERE name = ? AND status != 'finished'
GameNameTaken(db, name) ==
    \E r \in db.games : r.name = name /\ r.status # "finished"

\* (variant) a games table without a unique index on the name
GameNameNotUnique(db, name) == FALSE

\* the unique index the INSERT INTO games runs into (SQLite code 2067): an
\* active game has the name
GameNameUnique(db, name) ==
    \E r \in db.games : r.name = name /\ r.status = "active"

\* id: Uuid::new_v4() of the Game; games are never deleted
FreshGameIds ==
    IF Cardinality(games) < Len(GameIdOrder)
    THEN {GameIdOrder[Cardinality(games) + 1]} ELSE {}

\* the name check of create_game, read through the pool, for the call t0
CreateCheck(t0) ==
    LET t == [t0 EXCEPT !.op = "create_game"]
    IN  IF GameNameTaken(CurrentDb, t.name)
        THEN Done(t, "Game name already exists")
        ELSE [t EXCEPT !.pc = "create"]

\* create_game called on its own
create_game_check(p, name, life, u) ==
    /\ proc[p].pc = "idle"
    /\ IdsLeft
    /\ proc' = [proc EXCEPT ![p] =
          CreateCheck([Idle EXCEPT !.name = name, !.user = u, !.dmg = life])]
    /\ UNCHANGED <<storeVars, hubVars>>

\* create_game: INSERT INTO games, join_game_in_tx for the creator, commit.
\* The INSERT is the first statement of the transaction, so the transaction
\* reads the current rows; the unique violation (code 2067) and any error of
\* join_game_in_tx roll the game row back.
create_game_commit(p) ==
    /\ proc[p].pc = "create"
    /\ LET t == proc[p] IN
       IF GameNameUnique(CurrentDb, t.name)
       THEN /\ proc' = [proc EXCEPT ![p] = Done(t, "Game name already exists")]
            /\ UNCHANGED storeVars
       ELSE \E g \in FreshGameIds :
            /\ LET game == [id |-> g, name |-> t.name, status |-> "active",
                            starting_life |-> t.dmg]
                   db == [CurrentDb EXCEPT !.games = games \cup {game}]
                   e == JoinError(db, g, t.user)
                   cds == initialize_commander_damage_for_player_in_tx(
                              db, g, nextPlayerId)
               IN  IF e # "ok" \/ InsertConflict(commander_damage, cds)
                   THEN /\ proc' = [proc EXCEPT ![p] =
                              Done(t, IF e # "ok" THEN e
                                      ELSE "Database error")]
                        /\ UNCHANGED storeVars
                   ELSE /\ games' = games \cup {game}
                        /\ players' = players
                              \cup {NewPlayer(db, g, t.user, nextPlayerId)}
                        /\ commander_damage' = commander_damage \cup cds
                        /\ nextPlayerId' = nextPlayerId + 1
                        /\ proc' = AfterCommit(p,
                              [Done(t, "ok") EXCEPT !.game = g,
                                                    !.out = nextPlayerId])
                        /\ UNCHANGED <<life_changes, has_partner>>
    /\ UNCHANGED hubVars

\* --------------------------------------------------------------- leave_game
\* SELECT id, position FROM players WHERE game_id = ? AND clerk_user_id = ?
PlayerOfUser(db, g, u) == {r \in PlayersOf(db, g) : r.clerk_user_id = u}

\* (variant) leave_game without the check of the game's status
LeaveErrorNoStatus(db, g, u) ==
    IF get_game_by_id(db, g) = {} THEN "Game not found"
    ELSE IF PlayerOfUser(db, g, u) = {} THEN "Player not found"
    ELSE "ok"

LeaveError(db, g, u) ==
    IF get_game_by_id(db, g) = {} THEN "Game not found"
    ELSE IF \E r \in get_game_by_id(db, g) : r.status = "finished"
        THEN "Cannot leave finished game"
    ELSE IF PlayerOfUser(db, g, u) = {} THEN "Player not found"
    ELSE "ok"

\* (variant) the UPDATE without "AND position > ?"
ShiftPositionsAll(table, g, removed_position) ==
    {IF r.game_id = g THEN [r EXCEPT !.position = r.position - 1] ELSE r :
        r \in table}

\* (variant) leave_game without the UPDATE that shifts positions
ShiftPositionsNone(table, g, removed_position) == table

\* UPDATE players SET position = position - 1
\*   WHERE game_id = ? AND position > ?
ShiftPositions(table, g, removed_position) ==
    {IF r.game_id = g /\ r.position > removed_position
        THEN [r EXCEPT !.position = r.position - 1] ELSE r : r \in table}

\* (variant) the DELETE without "OR to_player_id = ?"
DeletePlayerDamageFrom(table, g, pid) ==
    {r \in table : ~(r.game_id = g /\ r.from_player_id = pid)}

\* DELETE FROM commander_damage WHERE game_id = ?
\*   AND (from_player_id = ? OR to_player_id = ?)
DeletePlayerDamage(table, g, pid) ==
    {r \in table :
        ~(/\ r.game_id = g
          /\ (r.from_player_id = pid \/ r.to_player_id = pid))}

\* pool.begin() and the reads of leave_game, for the call t0
LeaveBegin(t0) ==
    LET t == Begin([t0 EXCEPT !.op = "leave_game"])
        e == LeaveError(t.snap, t.game, t.user)
    IN  IF e = "ok" THEN [t EXCEPT !.pc = "leave"] ELSE Done(t, e)

\* leave_game called on its own
leave_game_begin(p, g, u) ==
    /\ proc[p].pc = "idle"
    /\ proc' = [proc EXCEPT ![p] =
          LeaveBegin([Idle EXCEPT !.game = g, !.user = u])]
    /\ UNCHANGED <<storeVars, hubVars>>

\* the two DELETEs, the UPDATE and tx.commit() of leave_game
leave_game_commit(p) ==
    /\ proc[p].pc = "leave"
    /\ LET t == proc[p] IN
       IF SnapshotStale(t)
       THEN /\ proc' = [proc EXCEPT ![p] = Done(t, "Database error")]
            /\ UNCHANGED storeVars
       ELSE \E player_row \in PlayerOfUser(t.snap, t.game, t.user) :
            /\ commander_damage' =
                  DeletePlayerDamage(commander_damage, t.game, player_row.id)
            /\ players' = ShiftPositions(
                  {r \in players :
                      ~(r.game_id = t.game /\ r.clerk_user_id = t.user)},
                  t.game, player_row.position)
            /\ proc' = AfterCommit(p, Done(t, "ok"))
            /\ has_partner' = has_partner \ {player_row.id}
            /\ UNCHANGED <<games, life_changes, nextPlayerId>>
    /\ UNCHANGED hubVars

\* ----------------------------------------------------------- toggle_partner
\* (variant) INSERT OR REPLACE: a row whose key is present is overwritten
InsertOrReplace(table, rows) ==
    {s \in table : ~\E r \in rows : SameKey(r, s)} \cup rows

\* INSERT OR IGNORE: rows whose key is already present are skipped
InsertOrIgnore(table, rows) ==
    table \cup {r \in rows : ~\E s \in table : SameKey(r, s)}

\* the commander-2 rows toggle_partner(enable) inserts for player pid
PartnerRows(db, g, pid) ==
    LET other_players == {r.id : r \in {x \in PlayersOf(db, g) : x.id # pid}}
    IN  {CdRow(g, pid, o, 2, 0) : o \in other_players}
        \cup {CdRow(g, o, pid, 2, 0) : o \in other_players}

\* (variant) the DELETE without "OR to_player_id = ?"
DeletePartnerRowsFrom(table, g, pid) ==
    {r \in table :
        ~(/\ r.game_id = g
          /\ r.commander_number = 2
          /\ r.from_player_id = pid)}

\* (variant) the DELETE without "AND commander_number = 2"
DeletePartnerRowsAnySlot(table, g, pid) ==
    {r \in table :
        ~(/\ r.game_id = g
          /\ (r.from_player_id = pid \/ r.to_player_id = pid))}

\* DELETE FROM commander_damage WHERE game_id = ? AND commander_number = 2
\*   AND (from_player_id = ? OR to_player_id = ?)
DeletePartnerRows(table, g, pid) ==
    {r \in table :
        ~(/\ r.game_id = g
          /\ r.commander_number = 2
          /\ (r.from_player_id = pid \/ r.to_player_id = pid))}

\* pool.begin() and the check that the player is in the game, for the call t0
ToggleBegin(t0) ==
    LET t == Begin([t0 EXCEPT !.op = "toggle_partner"])
    IN  IF PlayerInGame(t.snap, t.player, t.game) THEN [t EXCEPT !.pc = "toggle"]
        ELSE Done(t, "Player not found in game")

\* toggle_partner called on its own
toggle_partner_begin(p, g, pid, enable_partner) ==
    /\ proc[p].pc = "idle"
    /\ proc' = [proc EXCEPT ![p] =
          ToggleBegin([Idle EXCEPT !.game = g, !.player = pid,
                                   !.enable = enable_partner])]
    /\ UNCHANGED <<storeVars, hubVars>>

toggle_partner_commit(p) ==
    /\ proc[p].pc = "toggle"
    /\ LET t == proc[p] IN
       IF SnapshotStale(t)
       THEN /\ proc' = [proc EXCEPT ![p] = Done(t, "Database error")]
            /\ UNCHANGED storeVars
       ELSE /\ commander_damage' =
                  IF t.enable
                  THEN InsertOrIgnore(commander_damage,
                                      PartnerRows(t.snap, t.game, t.player))
                  ELSE DeletePartnerRows(commander_damage, t.game, t.player)
            /\ has_partner' = IF t.enable THEN has_partner \cup {t.player}
                                         ELSE has_partner \ {t.player}
            /\ proc' = AfterCommit(p, Done(t, "ok"))
            /\ UNCHANGED <<games, players, life_changes, nextPlayerId>>
    /\ UNCHANGED hubVars

\* -------------------------------------------------- update_commander_damage
\* (variant) the checks without "new_damage > 999"
DamageArgErrorNoMax(commander_number, new_damage) ==
    IF new_damage < 0 THEN "Commander damage cannot be negative"
    ELSE IF commander_number # 1 /\ commander_number # 2
        THEN "Commander number must be 1 or 2"
    ELSE "ok"

\* the checks made before any row is read
DamageArgError(commander_number, new_damage) ==
    IF new_damage < 0 THEN "Commander damage cannot be negative"
    ELSE IF new_damage > MaxCommanderDamage
        THEN "Commander damage cannot exceed 999"
    ELSE IF commander_number # 1 /\ commander_number # 2
        THEN "Commander number must be 1 or 2"
    ELSE "ok"

\* the checks on the rows read
DamagePlayersError(db, g, from, to) ==
    IF ~PlayerInGame(db, from, g) \/ ~PlayerInGame(db, to, g)
        THEN "One or both players not found in game"
    ELSE IF from = to
        THEN "Players cannot deal commander damage to themselves"
    ELSE "ok"

\* INSERT ... ON CONFLICT(game_id, from_player_id, to_player_id,
\*   commander_number) DO UPDATE SET damage = ?
Upsert(table, row) ==
    IF \E s \in table : SameKey(row, s)
    THEN {IF SameKey(row, s) THEN [s EXCEPT !.damage = row.damage] ELSE s :
            s \in table}
    ELSE table \cup {row}

\* the argument checks, pool.begin() and the check of the two players, for
\* the call t0
DamageBegin(t0) ==
    LET c == [t0 EXCEPT !.op = "update_commander_damage"]
        t == Begin(c)
        e == DamagePlayersError(t.snap, t.game, t.player, t.to)
    IN  IF DamageArgError(c.num, c.dmg) # "ok"
            THEN Done(c, DamageArgError(c.num, c.dmg))
        ELSE IF e # "ok" THEN Done(t, e)
        ELSE [t EXCEPT !.pc = "cmd"]

\* update_commander_damage called on its own
update_commander_damage_begin(p, g, from, to, num, new_damage) ==
    /\ proc[p].pc = "idle"
    /\ proc' = [proc EXCEPT ![p] =
          DamageBegin([Idle EXCEPT !.game = g, !.player = from, !.to = to,
                                   !.num = num, !.dmg = new_damage])]
    /\ UNCHANGED <<storeVars, hubVars>>

update_commander_damage_commit(p) ==
    /\ proc[p].pc = "cmd"
    /\ LET t == proc[p] IN
       IF SnapshotStale(t)
       THEN /\ proc' = [proc EXCEPT ![p] = Done(t, "Database error")]
            /\ UNCHANGED storeVars
       ELSE /\ commander_damage' = Upsert(commander_damage,
                  CdRow(t.game, t.player, t.to, t.num, t.dmg))
            /\ proc' = AfterCommit(p, [Done(t, "ok") EXCEPT !.out = t.dmg])
            /\ UNCHANGED <<games, players, life_changes, has_partner,
                           nextPlayerId>>
    /\ UNCHANGED hubVars

\* ------------------------------------------------------- update_player_life
\* (variant) a life total that does not go below 0
UpdatePlayerLifeFloor(p, t0) ==
    LET t == [t0 EXCEPT !.op = "update_player_life"] IN
    IF \E r \in players : r.id = t.player
    THEN LET player_row == CHOOSE r \in players : r.id = t.player
             sum == player_row.current_life + t.amount
             new_life == IF sum < 0 THEN 0 ELSE sum
         IN  /\ players' = (players \ {player_row})
                    \cup {[player_row EXCEPT !.current_life = new_life]}
             /\ life_changes' = Append(life_changes,
                    [game_id |-> player_row.game_id, player_id |-> t.player,
                     change_amount |-> t.amount, new_life_total |-> new_life])
             /\ proc' = AfterCommit(p, [Done(t, "ok") EXCEPT !.out = new_life])
             /\ UNCHANGED <<games, commander_damage, has_partner, nextPlayerId>>
    ELSE /\ proc' = [proc EXCEPT ![p] = Done(t, "Player not found")]
         /\ UNCHANGED storeVars

\* (variant) the LifeChange built from the row as it was before the UPDATE
UpdatePlayerLifeLogsOld(p, t0) ==
    LET t == [t0 EXCEPT !.op = "update_player_life"] IN
    IF \E r \in players : r.id = t.player
    THEN LET player_row == CHOOSE r \in players : r.id = t.player
             new_life == player_row.current_life + t.amount
         IN  /\ players' = (players \ {player_row})
                    \cup {[player_row EXCEPT !.current_life = new_life]}
             /\ life_changes' = Append(life_changes,
                    [game_id |-> player_row.game_id, player_id |-> t.player,
                     change_amount |-> t.amount,
                     new_life_total |-> player_row.current_life])
             /\ proc' = AfterCommit(p, [Done(t, "ok") EXCEPT !.out = new_life])
             /\ UNCHANGED <<games, commander_damage, has_partner, nextPlayerId>>
    ELSE /\ proc' = [proc EXCEPT ![p] = Done(t, "Player not found")]
         /\ UNCHANGED storeVars

\* UPDATE players SET current_life = current_life + ? WHERE id = ?
\* RETURNING *, INSERT INTO life_changes, commit, for the call t0.  The UPDATE
\* is the first statement of the transaction.
UpdatePlayerLife(p, t0) ==
    LET t == [t0 EXCEPT !.op = "update_player_life"] IN
    IF \E r \in players : r.id = t.player
    THEN LET player_row == CHOOSE r \in players : r.id = t.player
             new_life == player_row.current_life + t.amount
         IN  /\ players' = (players \ {player_row})
                    \cup {[player_row EXCEPT !.current_life = new_life]}
             /\ life_changes' = Append(life_changes,
                    [game_id |-> player_row.game_id, player_id |-> t.player,
                     change_amount |-> t.amount, new_life_total |-> new_life])
             /\ proc' = AfterCommit(p, [Done(t, "ok") EXCEPT !.out = new_life])
             /\ UNCHANGED <<games, commander_damage, has_partner, nextPlayerId>>
    ELSE /\ proc' = [proc EXCEPT ![p] = Done(t, "Player not found")]
         /\ UNCHANGED storeVars

\* update_player_life called on its own
update_player_life(p, pid, change_amount) ==
    /\ proc[p].pc = "idle"
    /\ Len(life_changes) < MaxLifeChanges
    /\ UpdatePlayerLife(p, [Idle EXCEPT !.player = pid,
                                        !.amount = change_amount])
    /\ UNCHANGED hubVars

\* ----------------------------------------------------------------- end_game
\* (variant) an UPDATE that flips the status
EndGameFlips(p, t0) ==
    LET t == [t0 EXCEPT !.op = "end_game"] IN
    IF get_game_by_id(CurrentDb, t.game) = {}
    THEN /\ proc' = [proc EXCEPT ![p] = Done(t, "Game not found")]
         /\ UNCHANGED storeVars
    ELSE /\ games' = {IF r.id = t.game
                      THEN [r EXCEPT !.status =
                              IF @ = "active" THEN "finished" ELSE "active"]
                      ELSE r : r \in games}
         /\ proc' = AfterCommit(p, Done(t, "ok"))
         /\ UNCHANGED <<players, commander_damage, life_changes, has_partner,
                        nextPlayerId>>

\* UPDATE games SET status = 'finished' WHERE id = ?  (autocommit), then
\* get_game_by_id for the result, for the call t0
EndGame(p, t0) ==
    LET t == [t0 EXCEPT !.op = "end_game"] IN
    IF get_game_by_id(CurrentDb, t.game) = {}
    THEN /\ proc' = [proc EXCEPT ![p] = Done(t, "Game not found")]
         /\ UNCHANGED storeVars
    ELSE /\ games' = {IF r.id = t.game THEN [r EXCEPT !.status = "finished"]
                      ELSE r : r \in games}
         /\ proc' = AfterCommit(p, Done(t, "ok"))
         /\ UNCHANGED <<players, commander_damage, life_changes, has_partner,
                        nextPlayerId>>

\* end_game called on its own
end_game(p, g) ==
    /\ proc[p].pc = "idle"
    /\ EndGame(p, [Idle EXCEPT !.game = g])
    /\ UNCHANGED hubVars

\* ------------------------------------------------------------------ returns
\* (variant) a handler that goes on to announce whatever its call returned
AnnouncesAlways(t) == TRUE

\* the `?` between a handler's call and its broadcast: the handler goes on
\* only with Ok
Announces(t) == t.result = "ok"

\* the caller is handed the result: the repository was called on its own, or
\* the handler returns the Err of one of its steps
HandlerReturns(t) ==
    \/ t.h = "none"
    \/ t.op = "none"
    \/ t.h = "create_game" /\ t.result # "ok"
    \/ t.h # "create_game" /\ ~Announces(t)

\* the caller takes the result and is free for its next call
Return(p) ==
    /\ proc[p].pc = "ret"
    /\ proc[p].h \notin {"handle_socket", "handle_websocket_message"}
    /\ HandlerReturns(proc[p])
    /\ proc' = [proc EXCEPT ![p] = Idle]
    /\ UNCHANGED <<storeVars, hubVars>>

\* ================================================================== AppState
RoomExists(g) == game_rooms[g].sender # 0

\* the live Receivers of channel ch: a connection keeps its Receiver until
\* its sender_task ends
Receivers(ch) ==
    {c \in Conns : /\ conns[c].pc \in {"subscribed", "streaming"}
                   /\ conns[c].rx_chan = ch}

\* the room's Sender was dropped with the GameRoom
Closed(ch) == \A g \in GameIds : game_rooms[g].sender # ch

\* GameRoom { connected_users: DashMap::new(), sender } over a new channel
NewRoom(ch) == [sender |-> ch, connected_users |-> {}]

\* (variant) game_rooms.insert(game_id, room): a room that is present is
\* replaced by the new one
EntryInsert(rooms, g, ch) == [rooms EXCEPT ![g] = NewRoom(ch)]

\* game_rooms.entry(game_id).or_insert_with(..): one step under the lock of
\* the map's shard
EntryOrInsert(rooms, g, ch) ==
    IF rooms[g].sender # 0 THEN rooms ELSE [rooms EXCEPT ![g] = NewRoom(ch)]

\* broadcast::channel is called only when the entry is vacant
ChannelsAfter(rooms) ==
    IF \E g \in GameIds : rooms[g].sender = nextChan
    THEN nextChan + 1 ELSE nextChan

\* the room of a game is looked up and created if absent
GetOrCreate(g) ==
    /\ RoomExists(g) \/ nextChan <= MaxChannels
    /\ game_rooms' = EntryOrInsert(game_rooms, g, nextChan)
    /\ nextChan' = ChannelsAfter(game_rooms')

\* get_or_create_game_room called on its own
get_or_create_game_room(g) ==
    /\ GetOrCreate(g)
    /\ UNCHANGED <<storeVars, proc, chans, conns, cleanups, served>>

add_user_to_game(g, u) ==
    /\ RoomExists(g) \/ nextChan <= MaxChannels
    /\ LET room_entry == EntryOrInsert(game_rooms, g, nextChan)
       IN  game_rooms' = [room_entry EXCEPT
                ![g].connected_users = @ \cup {u}]
    /\ nextChan' = ChannelsAfter(game_rooms')
    /\ UNCHANGED <<storeVars, proc, chans, conns, cleanups, served>>

get_connected_users_in_game(g) ==
    /\ GetOrCreate(g)
    /\ UNCHANGED <<storeVars, proc, chans, conns, cleanups, served>>

\* remove_user_from_game, under the read guard of the room: remove the user
\* and compute should_delete
remove_user_from_game_begin(p, g, u) ==
    /\ proc[p].pc = "idle"
    /\ LET t == [Idle EXCEPT !.op = "remove_user_from_game", !.game = g,
                             !.user = u]
           left == game_rooms[g].connected_users \ {u}
       IN  IF RoomExists(g)
           THEN /\ game_rooms' = [game_rooms EXCEPT
                      ![g].connected_users = left]
                /\ proc' = [proc EXCEPT ![p] =
                      IF left = {} THEN [t EXCEPT !.pc = "remove_room"]
                      ELSE Done(t, "ok")]
           ELSE /\ proc' = [proc EXCEPT ![p] = Done(t, "ok")]
                /\ UNCHANGED game_rooms
    /\ UNCHANGED <<storeVars, chans, nextChan, conns, cleanups, served>>

\* remove_user_from_game: game_rooms.remove(&game_id) after the guard is gone
remove_user_from_game_remove(p) ==
    /\ proc[p].pc = "remove_room"
    /\ game_rooms' = [game_rooms EXCEPT ![proc[p].game] = NoRoom]
    /\ proc' = [proc EXCEPT ![p] = Done(proc[p], "ok")]
    /\ UNCHANGED <<storeVars, chans, nextChan, conns, cleanups, served>>

\* the room of a game is removed; its Sender is dropped with it
cleanup_game_room(g) ==
    /\ game_rooms' = [game_rooms EXCEPT ![g] = NoRoom]
    /\ UNCHANGED <<storeVars, proc, chans, nextChan, conns, cleanups, served>>

\* (variant) a channel that hands the newest message to the front
SendFront(sent, message) ==
    <<[pos |-> Len(sent) + 1, val |-> message]>> \o sent

\* broadcast::Sender::send with a live receiver: the message takes the next
\* position of the channel
Send(sent, message) == Append(sent, [pos |-> Len(sent) + 1, val |-> message])

\* room_entry.sender.send(message): with no live receiver send returns Err
\* and the message is dropped; broadcast_to_game logs the Err
SenderSend(ch, message) ==
    IF Receivers(ch) = {} THEN chans
    ELSE [chans EXCEPT ![ch] = Send(@, message)]

\* broadcast_to_game by caller p, whose record is t when the call returns;
\* without a room .expect("Should have a game if broadcasting to a game")
\* panics and the caller's task is gone
Broadcast(p, t, g, message) ==
    IF RoomExists(g)
    THEN /\ Len(chans[game_rooms[g].sender]) < MaxEvents
         /\ chans' = SenderSend(game_rooms[g].sender, message)
         /\ proc' = [proc EXCEPT ![p] = t]
    ELSE /\ proc' = [proc EXCEPT ![p] = Done(proc[p], "panic")]
         /\ UNCHANGED chans

\* broadcast_to_game called on its own
broadcast_to_game(p, g, message) ==
    /\ proc[p].pc = "idle"
    /\ Broadcast(p, Idle, g, message)
    /\ UNCHANGED <<storeVars, game_rooms, nextChan, conns, cleanups, served>>

\* ---------------------------------------------------------- handle_socket
\* get_game_receiver: sender.subscribe() hands out a Receiver that sees the
\* messages sent from now on; without a room the expect panics and the
\* connection's task is gone
get_game_receiver(c, g) ==
    /\ conns[c].pc = "idle"
    /\ conns' = [conns EXCEPT ![c] =
          IF RoomExists(g)
          THEN [@ EXCEPT !.pc = "streaming", !.game = g,
                         !.rx_chan = game_rooms[g].sender,
                         !.rx_next = Len(chans[game_rooms[g].sender]) + 1]
          ELSE [@ EXCEPT !.pc = "ended", !.game = g, !.open = FALSE]]
    /\ UNCHANGED <<storeVars, proc, game_rooms, chans, nextChan, cleanups, served>>

\* (variant) a Receiver that does not move past the message it returned
RecvNextStay(next) == next

\* the Receiver's next position after recv returned a message
RecvNext(next) == next + 1

\* game_receiver.recv(): Lagged when the next message is no longer retained,
\* a message when one is waiting, Closed when the Sender is gone and nothing
\* is waiting, pending otherwise
RecvResult(c) ==
    LET sent == chans[conns[c].rx_chan]
    IN  IF conns[c].rx_next <= Len(sent) - ChannelCapacity THEN "Lagged"
        ELSE IF conns[c].rx_next <= Len(sent) THEN "Ok"
        ELSE IF Closed(conns[c].rx_chan) THEN "Closed"
        ELSE "Pending"

\* (variant) a sender_task whose failed write to the client takes the room
\* down with it
sender_task_recv_drops_room(c) ==
    /\ conns[c].pc = "streaming"
    /\ RecvResult(c) # "Pending"
    /\ conns' = [conns EXCEPT ![c] =
          IF RecvResult(c) = "Ok" /\ conns[c].open
          THEN [@ EXCEPT !.rx_next = RecvNext(@),
                         !.recv = "Ok",
                         !.delivered = Append(@,
                             chans[conns[c].rx_chan][conns[c].rx_next])]
          ELSE [@ EXCEPT !.pc = "ended", !.recv = RecvResult(c)]]
    /\ game_rooms' = IF RecvResult(c) = "Ok" /\ ~conns[c].open
                     THEN [game_rooms EXCEPT ![conns[c].game] = NoRoom]
                     ELSE game_rooms
    /\ UNCHANGED <<storeVars, proc, chans, nextChan, cleanups, served>>

\* one turn of the loop of sender_task: while let Ok(message) = recv().await
\* { if sender.send(..).await.is_err() { break } }
sender_task_recv(c) ==
    /\ conns[c].pc = "streaming"
    /\ RecvResult(c) # "Pending"
    /\ conns' = [conns EXCEPT ![c] =
          IF RecvResult(c) = "Ok" /\ conns[c].open
          THEN [@ EXCEPT !.rx_next = RecvNext(@),
                         !.recv = "Ok",
                         !.delivered = Append(@,
                             chans[conns[c].rx_chan][conns[c].rx_next])]
          ELSE [@ EXCEPT !.pc = "ended", !.recv = RecvResult(c)]]
    /\ UNCHANGED <<storeVars, proc, game_rooms, chans, nextChan, cleanups, served>>

\* the client goes away: sends to it fail from now on
socket_close(c) ==
    /\ conns[c].pc \in {"subscribed", "streaming"}
    /\ conns[c].open
    /\ conns' = [conns EXCEPT ![c].open = FALSE]
    /\ UNCHANGED <<storeVars, proc, game_rooms, chans, nextChan, cleanups, served>>

\* ================================================================= handlers
\* a handler takes a request
Serve ==
    /\ served < MaxRequests
    /\ served' = served + 1
    /\ UNCHANGED roomVars

\* a handler's call has returned Ok and the handler goes on
Proceeds(p, h) ==
    /\ proc[p].pc = "ret"
    /\ proc[p].h = h
    /\ ~HandlerReturns(proc[p])

\* get_game_by_id through the pool and the check "game.status != active"
GameActiveError(g) ==
    IF get_game_by_id(CurrentDb, g) = {} THEN "Game not found"
    ELSE IF \E r \in get_game_by_id(CurrentDb, g) : r.status # "active"
        THEN "Game is not active"
    ELSE "ok"

\* get_commander_damage_for_game(..).find(key).map(|cd| cd.damage)
\*   .unwrap_or(0)
DamageOf(g, from, to, num) ==
    IF \E r \in commander_damage : SameKey(r, CdRow(g, from, to, num, 0))
    THEN (CHOOSE r \in commander_damage :
            SameKey(r, CdRow(g, from, to, num, 0))).damage
    ELSE 0

\* ------------------------------------------------------- life round trip
\* a caller applies change_amount to a player and then takes it back:
\* update_player_life(p, d) ...
life_round_trip(p, pid, change_amount) ==
    /\ proc[p].pc = "idle"
    /\ Len(life_changes) + 1 < MaxLifeChanges
    /\ \E r \in players : r.id = pid
    /\ UpdatePlayerLife(p,
          [Idle EXCEPT !.h = "life_round_trip", !.player = pid,
               !.amount = change_amount,
               !.before = (CHOOSE r \in players : r.id = pid).current_life])
    /\ UNCHANGED hubVars

\* ... followed by update_player_life(p, -d)
life_round_trip_back(p) ==
    /\ Proceeds(p, "life_round_trip")
    /\ UpdatePlayerLife(p, [proc[p] EXCEPT !.h = "life_round_trip_back",
                                           !.amount = -@])
    /\ UNCHANGED hubVars

life_round_trip_return(p) ==
    /\ Proceeds(p, "life_round_trip_back")
    /\ proc' = [proc EXCEPT ![p] = Idle]
    /\ UNCHANGED <<storeVars, hubVars>>

\* ------------------------------------------------- handlers.rs create_game
\* the range check of starting_life and the name check of create_game
handler_create_game(p, name, life, u) ==
    /\ proc[p].pc = "idle"
    /\ IdsLeft
    /\ LET t == [Idle EXCEPT !.h = "create_game", !.name = name, !.user = u,
                             !.dmg = life]
       IN  proc' = [proc EXCEPT ![p] =
                IF life < 1 \/ life > 999
                THEN Done(t, "Starting life must be between 1 and 999")
                ELSE CreateCheck(t)]
    /\ Serve
    /\ UNCHANGED storeVars

\* state.get_or_create_game_room(game.id); Ok(Json(game))
handler_create_game_room(p) ==
    /\ proc[p].pc = "ret"
    /\ proc[p].h = "create_game"
    /\ proc[p].result = "ok"
    /\ GetOrCreate(proc[p].game)
    /\ proc' = [proc EXCEPT ![p] = Idle]
    /\ UNCHANGED <<storeVars, chans, conns, cleanups, served>>

\* ------------------------------------------------- handlers.rs update_life
\* the check of change_amount and "Verify game is active"
update_life(p, g, pid, change_amount) ==
    /\ proc[p].pc = "idle"
    /\ LET t == [Idle EXCEPT !.h = "update_life", !.game = g, !.player = pid,
                             !.amount = change_amount]
           abs == IF change_amount < 0 THEN -change_amount ELSE change_amount
       IN  proc' = [proc EXCEPT ![p] =
                IF abs > MaxLifeChange
                    THEN Done(t, "Life change too large (max +-100)")
                ELSE IF GameActiveError(g) # "ok" THEN Done(t, GameActiveError(g))
                ELSE [t EXCEPT !.pc = "call"]]
    /\ Serve
    /\ UNCHANGED storeVars

update_life_call(p) ==
    /\ proc[p].pc = "call"
    /\ proc[p].h = "update_life"
    /\ Len(life_changes) < MaxLifeChanges
    /\ UpdatePlayerLife(p, proc[p])
    /\ UNCHANGED hubVars

update_life_broadcast(p) ==
    /\ Proceeds(p, "update_life")
    /\ LET t == proc[p]
       IN  Broadcast(p, Idle, t.game,
                     LifeUpdate(t.game, t.player, t.out, t.amount))
    /\ UNCHANGED <<storeVars, game_rooms, nextChan, conns, cleanups, served>>

\* --------------------------------------------------------- handle_life_update
handle_life_update(p, pid, change_amount, g) ==
    /\ proc[p].pc = "idle"
    /\ Len(life_changes) < MaxLifeChanges
    /\ UpdatePlayerLife(p, [Idle EXCEPT !.h = "handle_life_update",
                                        !.game = g, !.player = pid,
                                        !.amount = change_amount])
    /\ Serve

handle_life_update_broadcast(p) ==
    /\ Proceeds(p, "handle_life_update")
    /\ LET t == proc[p]
       IN  Broadcast(p, Idle, t.game,
                     LifeUpdate(t.game, t.player, t.out, t.amount))
    /\ UNCHANGED <<storeVars, game_rooms, nextChan, conns, cleanups, served>>

\* ----------------------------------------------------------- handle_join_game
handle_join_game(p, u, g) ==
    /\ proc[p].pc = "idle"
    /\ IdsLeft
    /\ proc' = [proc EXCEPT ![p] =
          JoinBegin([Idle EXCEPT !.h = "handle_join_game", !.game = g,
                                 !.user = u])]
    /\ Serve
    /\ UNCHANGED storeVars

handle_join_game_broadcast(p) ==
    /\ Proceeds(p, "handle_join_game")
    /\ LET t == proc[p]
       IN  Broadcast(p, Idle, t.game, PlayerJoined(t.game, t.out))
    /\ UNCHANGED <<storeVars, game_rooms, nextChan, conns, cleanups, served>>

\* ------------------------------------------- handle_socket: verify, attach
\* verify_game without the check of game.status
socket_verify_game_any_status(p, g, u) ==
    /\ proc[p].pc = "idle"
    /\ conns[ConnOf(p)].pc = "idle"
    /\ IdsLeft
    /\ LET t == [Idle EXCEPT !.h = "handle_socket", !.game = g, !.user = u]
       IN  proc' = [proc EXCEPT ![p] =
                IF get_game_by_id(CurrentDb, g) = {}
                THEN Done(t, "Game not found")
                ELSE [t EXCEPT !.pc = "verified"]]
    /\ Serve
    /\ UNCHANGED storeVars

\* verify_game for a connecting socket of user u: get_game_by_id through the
\* pool and the check "game.status != active"
socket_verify_game(p, g, u) ==
    /\ proc[p].pc = "idle"
    /\ conns[ConnOf(p)].pc = "idle"
    /\ IdsLeft
    /\ LET t == [Idle EXCEPT !.h = "handle_socket", !.game = g, !.user = u]
       IN  proc' = [proc EXCEPT ![p] =
                IF GameActiveError(g) # "ok" THEN Done(t, GameActiveError(g))
                ELSE [t EXCEPT !.pc = "verified"]]
    /\ Serve
    /\ UNCHANGED storeVars

\* add_user_to_game without the search for the user: every attach joins
socket_add_user_to_game_always_joins(p) ==
    /\ proc[p].pc = "verified"
    /\ proc' = [proc EXCEPT ![p] = [proc[p] EXCEPT !.pc = "attach"]]
    /\ UNCHANGED <<storeVars, hubVars>>

\* websocket.rs add_user_to_game: get_players_in_game through the pool and
\* the search for the user; a user who is seated is not joined again
socket_add_user_to_game(p) ==
    /\ proc[p].pc = "verified"
    /\ LET t == proc[p]
       IN  proc' = [proc EXCEPT ![p] =
                IF \E r \in PlayersOf(CurrentDb, t.game) :
                       r.clerk_user_id = t.user
                THEN [t EXCEPT !.pc = "attached"]
                ELSE [t EXCEPT !.pc = "attach"]]
    /\ UNCHANGED <<storeVars, hubVars>>

\* handle_join_game(clerk_user_id, game_id, state) for the connecting user
socket_join_game(p) ==
    /\ proc[p].pc = "attach"
    /\ proc' = [proc EXCEPT ![p] = JoinBegin(proc[p])]
    /\ UNCHANGED <<storeVars, hubVars>>

\* the broadcast of handle_join_game, called by add_user_to_game
socket_join_game_broadcast(p) ==
    /\ Proceeds(p, "handle_socket")
    /\ LET t == proc[p]
       IN  Broadcast(p, [t EXCEPT !.pc = "attached"], t.game,
                     PlayerJoined(t.game, t.out))
    /\ UNCHANGED <<storeVars, game_rooms, nextChan, conns, cleanups, served>>

\* verify_game or add_user_to_game returned Err: the Error frame is written
\* to the client and handle_socket returns; a panic of broadcast_to_game ends
\* the task without a frame
socket_error(c) ==
    /\ proc[TaskOf(c)].pc = "ret"
    /\ proc[TaskOf(c)].h = "handle_socket"
    /\ HandlerReturns(proc[TaskOf(c)])
    /\ conns' = [conns EXCEPT ![c] =
          [@ EXCEPT !.pc = "ended", !.game = proc[TaskOf(c)].game,
                    !.errors = IF /\ proc[TaskOf(c)].result # "panic"
                                  /\ conns[c].open
                               THEN @ + 1 ELSE @,
                    !.error_msg = IF /\ proc[TaskOf(c)].result # "panic"
                                     /\ conns[c].open
                                  THEN proc[TaskOf(c)].result ELSE @]]
    /\ proc' = [proc EXCEPT ![TaskOf(c)] = Idle]
    /\ UNCHANGED <<storeVars, game_rooms, chans, nextChan, cleanups, served>>

\* get_game_receiver with a receiver that starts behind the next message
socket_get_game_receiver_skips(c) ==
    /\ proc[TaskOf(c)].pc = "attached"
    /\ conns[c].pc = "idle"
    /\ LET g == proc[TaskOf(c)].game
       IN  conns' = [conns EXCEPT ![c] =
              IF RoomExists(g)
              THEN [@ EXCEPT !.pc = "subscribed", !.game = g,
                             !.rx_chan = game_rooms[g].sender,
                             !.rx_next = Len(chans[game_rooms[g].sender]) + 2]
              ELSE [@ EXCEPT !.pc = "ended", !.game = g]]
    /\ proc' = [proc EXCEPT ![TaskOf(c)] = Idle]
    /\ UNCHANGED <<storeVars, game_rooms, chans, nextChan, cleanups, served>>

\* state.get_game_receiver(game_id) after the user is attached: subscribe,
\* or panic without a room
socket_get_game_receiver(c) ==
    /\ proc[TaskOf(c)].pc = "attached"
    /\ conns[c].pc = "idle"
    /\ LET g == proc[TaskOf(c)].game
       IN  conns' = [conns EXCEPT ![c] =
              IF RoomExists(g)
              THEN [@ EXCEPT !.pc = "subscribed", !.game = g,
                             !.rx_chan = game_rooms[g].sender,
                             !.rx_next = Len(chans[game_rooms[g].sender]) + 1]
              ELSE [@ EXCEPT !.pc = "ended", !.game = g]]
    /\ proc' = [proc EXCEPT ![TaskOf(c)] = Idle]
    /\ UNCHANGED <<storeVars, game_rooms, chans, nextChan, cleanups, served>>

\* send_initial_game_state: get_game_state through the pool and the
\* GameStarted frame written to the client; when the write fails
\* handle_socket returns, otherwise sender_task and receiver_task are spawned
socket_send_initial_game_state(c) ==
    /\ conns[c].pc = "subscribed"
    /\ conns' = [conns EXCEPT ![c] =
          IF get_game_by_id(CurrentDb, @.game) # {} /\ @.open
          THEN [@ EXCEPT !.pc = "streaming", !.reader = "running",
                         !.snapshot = Len(life_changes)]
          ELSE [@ EXCEPT !.pc = "ended"]]
    /\ UNCHANGED <<storeVars, proc, game_rooms, chans, nextChan, cleanups,
                   served>>

\* ---------------------------------------------------------- handle_leave_game
\* get_players_in_game through the pool and the search for player_id
handle_leave_game(p, pid, g) ==
    /\ proc[p].pc = "idle"
    /\ LET t == [Idle EXCEPT !.h = "handle_leave_game", !.game = g,
                             !.player = pid]
           found == {r \in PlayersOf(CurrentDb, g) : r.id = pid}
       IN  proc' = [proc EXCEPT ![p] =
                IF found = {} THEN Done(t, "Player not found")
                ELSE [t EXCEPT !.pc = "call",
                        !.user = (CHOOSE r \in found : TRUE).clerk_user_id]]
    /\ Serve
    /\ UNCHANGED storeVars

handle_leave_game_call(p) ==
    /\ proc[p].pc = "call"
    /\ proc[p].h = "handle_leave_game"
    /\ proc' = [proc EXCEPT ![p] = LeaveBegin(proc[p])]
    /\ UNCHANGED <<storeVars, hubVars>>

handle_leave_game_broadcast(p) ==
    /\ Proceeds(p, "handle_leave_game")
    /\ LET t == proc[p]
       IN  Broadcast(p, Idle, t.game, PlayerLeft(t.game, t.player))
    /\ UNCHANGED <<storeVars, game_rooms, nextChan, conns, cleanups, served>>

\* ------------------------------------------------------------ handle_end_game
handle_end_game(p, g) ==
    /\ proc[p].pc = "idle"
    /\ EndGame(p, [Idle EXCEPT !.h = "handle_end_game", !.game = g])
    /\ Serve

\* get_players_in_game and players.iter().max_by_key(|p| p.current_life):
\* of the players with the highest life the last one in the order of their
\* positions
handle_end_game_winner(p) ==
    /\ Proceeds(p, "handle_end_game")
    /\ LET seated == PlayersOf(CurrentDb, proc[p].game)
           best == {r \in seated :
                      \A s \in seated :
                          \/ s.current_life < r.current_life
                          \/ (s.current_life = r.current_life
                              /\ s.position <= r.position)}
       IN  proc' = [proc EXCEPT ![p] =
                [proc[p] EXCEPT !.pc = "winner",
                                !.out = IF best = {} THEN 0
                                        ELSE (CHOOSE r \in best : TRUE).id]]
    /\ UNCHANGED <<storeVars, hubVars>>

\* (variant) cleanup_game_room called by the handler itself, without the
\* spawned task and its sleep
handle_end_game_broadcast_cleanup(p) ==
    /\ proc[p].pc = "winner"
    /\ LET t == proc[p]
       IN  Broadcast(p, Idle, t.game, GameEnded(t.game, t.out))
    /\ game_rooms' = [game_rooms EXCEPT ![proc[p].game] = NoRoom]
    /\ UNCHANGED <<storeVars, nextChan, conns, cleanups, served>>

\* broadcast GameEnded and spawn the task that cleans the room up after 5 s
handle_end_game_broadcast(p) ==
    /\ proc[p].pc = "winner"
    /\ LET t == proc[p]
       IN  Broadcast(p, Idle, t.game, GameEnded(t.game, t.out))
    /\ cleanups' = IF RoomExists(proc[p].game)
                   THEN cleanups \cup {proc[p].game} ELSE cleanups
    /\ UNCHANGED <<storeVars, game_rooms, nextChan, conns, served>>

\* the spawned task wakes up: state_clone.cleanup_game_room(game_id)
cleanup_task(g) ==
    /\ g \in cleanups
    /\ game_rooms' = [game_rooms EXCEPT ![g] = NoRoom]
    /\ cleanups' = cleanups \ {g}
    /\ UNCHANGED <<storeVars, proc, chans, nextChan, conns, served>>

\* ------------------------------------------------ handle_set_commander_damage
\* "Verify game is active"
handle_set_commander_damage(p, from, to, num, new_damage, g) ==
    /\ proc[p].pc = "idle"
    /\ LET t == [Idle EXCEPT !.h = "handle_set_commander_damage", !.game = g,
                             !.player = from, !.to = to, !.num = num,
                             !.dmg = new_damage]
       IN  proc' = [proc EXCEPT ![p] =
                IF GameActiveError(g) # "ok" THEN Done(t, GameActiveError(g))
                ELSE [t EXCEPT !.pc = "call"]]
    /\ Serve
    /\ UNCHANGED storeVars

\* database::update_commander_damage(..); before keeps the damage that is
\* stored for the entry when the call's transaction begins
handle_set_commander_damage_call(p) ==
    /\ proc[p].pc = "call"
    /\ proc[p].h = "handle_set_commander_damage"
    /\ LET t == proc[p]
       IN  proc' = [proc EXCEPT ![p] =
                DamageBegin([t EXCEPT !.before =
                    DamageOf(t.game, t.player, t.to, t.num)])]
    /\ UNCHANGED <<storeVars, hubVars>>

\* "Calculate damage amount for broadcast (difference from previous)": the
\* entry is read after the update
handle_set_commander_damage_previous(p) ==
    /\ Proceeds(p, "handle_set_commander_damage")
    /\ LET t == proc[p]
       IN  proc' = [proc EXCEPT ![p] =
                [t EXCEPT !.pc = "previous",
                          !.amount = t.dmg
                              - DamageOf(t.game, t.player, t.to, t.num)]]
    /\ UNCHANGED <<storeVars, hubVars>>

handle_set_commander_damage_broadcast(p) ==
    /\ proc[p].pc = "previous"
    /\ LET t == proc[p]
       IN  Broadcast(p, Idle, t.game,
                     CommanderDamageUpdate(t.game, t.player, t.to, t.num,
                                           t.dmg, t.amount))
    /\ UNCHANGED <<storeVars, game_rooms, nextChan, conns, cleanups, served>>

\* --------------------------------------------- handle_update_commander_damage
\* "Verify game is active"
handle_update_commander_damage(p, from, to, num, damage_amount, g) ==
    /\ proc[p].pc = "idle"
    /\ LET t == [Idle EXCEPT !.h = "handle_update_commander_damage",
                             !.game = g, !.player = from, !.to = to,
                             !.num = num, !.amount = damage_amount]
       IN  proc' = [proc EXCEPT ![p] =
                IF GameActiveError(g) # "ok" THEN Done(t, GameActiveError(g))
                ELSE [t EXCEPT !.pc = "current"]]
    /\ Serve
    /\ UNCHANGED storeVars

\* "Get current damage to calculate new damage"
handle_update_commander_damage_current(p) ==
    /\ proc[p].pc = "current"
    /\ LET t == proc[p]
       IN  proc' = [proc EXCEPT ![p] =
                [t EXCEPT !.pc = "call",
                          !.dmg = DamageOf(t.game, t.player, t.to, t.num)
                              + t.amount]]
    /\ UNCHANGED <<storeVars, hubVars>>

handle_update_commander_damage_call(p) ==
    /\ proc[p].pc = "call"
    /\ proc[p].h = "handle_update_commander_damage"
    /\ proc' = [proc EXCEPT ![p] = DamageBegin(proc[p])]
    /\ UNCHANGED <<storeVars, hubVars>>

handle_update_commander_damage_broadcast(p) ==
    /\ Proceeds(p, "handle_update_commander_damage")
    /\ LET t == proc[p]
       IN  Broadcast(p, Idle, t.game,
                     CommanderDamageUpdate(t.game, t.player, t.to, t.num,
                                           t.dmg, t.amount))
    /\ UNCHANGED <<storeVars, game_rooms, nextChan, conns, cleanups, served>>

\* ------------------------------------------------------ handle_toggle_partner
\* "Verify game is active"
handle_toggle_partner(p, pid, enable_partner, g) ==
    /\ proc[p].pc = "idle"
    /\ LET t == [Idle EXCEPT !.h = "handle_toggle_partner", !.game = g,
                             !.player = pid, !.enable = enable_partner]
       IN  proc' = [proc EXCEPT ![p] =
                IF GameActiveError(g) # "ok" THEN Done(t, GameActiveError(g))
                ELSE [t EXCEPT !.pc = "call"]]
    /\ Serve
    /\ UNCHANGED storeVars

handle_toggle_partner_call(p) ==
    /\ proc[p].pc = "call"
    /\ proc[p].h = "handle_toggle_partner"
    /\ proc' = [proc EXCEPT ![p] = ToggleBegin(proc[p])]
    /\ UNCHANGED <<storeVars, hubVars>>

handle_toggle_partner_broadcast(p) ==
    /\ Proceeds(p, "handle_toggle_partner")
    /\ LET t == proc[p]
       IN  Broadcast(p, Idle, t.game,
                     PartnerToggled(t.game, t.player, t.enable))
    /\ UNCHANGED <<storeVars, game_rooms, nextChan, conns, cleanups, served>>

\* ------------------------------------------- handle_socket: receiver_task
\* the loop of receiver_task takes the next frame of the client and awaits
\* handle_websocket_message for it; the frames below are UpdateLife, EndGame
\* and a text that does not parse.  A client that is gone sends no frame.
receiver_task_update_life(c, pid, change_amount) ==
    /\ conns[c].reader = "running"
    /\ conns[c].open
    /\ handle_life_update(TaskOf(c), pid, change_amount, conns[c].game)

receiver_task_end_game(c) ==
    /\ conns[c].reader = "running"
    /\ conns[c].open
    /\ handle_end_game(TaskOf(c), conns[c].game)

\* serde_json::from_str(text).map_err(|_| BadRequest("Invalid JSON"))?
receiver_task_invalid_json(c) ==
    /\ conns[c].reader = "running"
    /\ conns[c].open
    /\ proc[TaskOf(c)].pc = "idle"
    /\ proc' = [proc EXCEPT ![TaskOf(c)] =
          Done([Idle EXCEPT !.h = "handle_websocket_message",
                            !.game = conns[c].game], "Invalid JSON")]
    /\ Serve
    /\ UNCHANGED storeVars

\* if let Err(e) = handle_websocket_message(..).await { error!(..) }: the Err
\* is logged and the loop goes on; a panic of broadcast_to_game ends the task
receiver_task_err(c) ==
    /\ conns[c].reader = "running"
    /\ proc[TaskOf(c)].pc = "ret"
    /\ proc[TaskOf(c)].h # "handle_socket"
    /\ HandlerReturns(proc[TaskOf(c)])
    /\ conns' = [conns EXCEPT ![c].reader =
          IF proc[TaskOf(c)].result = "panic" THEN "ended" ELSE @]
    /\ proc' = [proc EXCEPT ![TaskOf(c)] = Idle]
    /\ UNCHANGED <<storeVars, game_rooms, chans, nextChan, cleanups, served>>

\* (variant) a connection that calls state.remove_user_from_game when its
\* client is gone: the room, left without a connected user, is removed
receiver_task_close_removes_user(c) ==
    /\ conns[c].reader = "running"
    /\ proc[TaskOf(c)].pc = "idle"
    /\ ~conns[c].open
    /\ conns' = [conns EXCEPT ![c].reader = "ended"]
    /\ game_rooms' =
          IF Cardinality(game_rooms[conns[c].game].connected_users) <= 1
          THEN [game_rooms EXCEPT ![conns[c].game] = NoRoom]
          ELSE game_rooms
    /\ UNCHANGED <<storeVars, proc, chans, nextChan, cleanups, served>>

\* receiver.next() yields Close, Err or None once the client is gone: break
receiver_task_close(c) ==
    /\ conns[c].reader = "running"
    /\ proc[TaskOf(c)].pc = "idle"
    /\ ~conns[c].open
    /\ conns' = [conns EXCEPT ![c].reader = "ended"]
    /\ UNCHANGED <<storeVars, proc, game_rooms, chans, nextChan, cleanups,
                   served>>

\* ============================================================ specification
\* seats: games are created and ended, users join and leave
SeatStep(p) ==
    \/ \E n \in Names, l \in StartingLives, u \in Users :
          create_game_check(p, n, l, u)
    \/ create_game_commit(p)
    \/ \E g \in ReqGameIds, u \in Users : join_game_begin(p, g, u)
    \/ join_game_commit(p)
    \/ \E g \in ReqGameIds, u \in Users : leave_game_begin(p, g, u)
    \/ leave_game_commit(p)
    \/ \E g \in ReqGameIds : end_game(p, g)
    \/ Return(p)

\* the commander-damage matrix: partner toggles and damage updates
DamageStep(p) ==
    \/ \E g \in ReqGameIds, pid \in ReqPlayerIds, e \in BOOLEAN :
          toggle_partner_begin(p, g, pid, e)
    \/ toggle_partner_commit(p)
    \/ \E g \in ReqGameIds, f \in DamageFromIds, t \in DamageToIds,
          n \in CommanderNumbers, d \in DamageInputs :
          update_commander_damage_begin(p, g, f, t, n, d)
    \/ update_commander_damage_commit(p)

\* the seats and the commander-damage matrix, one caller at a time
Next == \E p \in Solo : SeatStep(p) \/ DamageStep(p)

Spec == Init /\ [][Next]_vars

\* the seat operations called by concurrent callers
SeatNext == \E p \in Procs : SeatStep(p)

SpecSeats == Init /\ [][SeatNext]_vars

\* the room registry and its channels, called by concurrent callers and
\* read by the connections' sender tasks
HubStep(p) ==
    \/ \E g \in ReqGameIds : get_or_create_game_room(g)
    \/ \E g \in ReqGameIds, u \in HubUsers : add_user_to_game(g, u)
    \/ \E g \in ReqGameIds : get_connected_users_in_game(g)
    \/ \E g \in ReqGameIds : cleanup_game_room(g)
    \/ \E g \in ReqGameIds, u \in HubUsers : remove_user_from_game_begin(p, g, u)
    \/ remove_user_from_game_remove(p)
    \/ \E g \in ReqGameIds : broadcast_to_game(p, g, GameStarted(g))
    \/ Return(p)

ConnStep(c) ==
    \/ \E g \in ReqGameIds : get_game_receiver(c, g)
    \/ sender_task_recv(c)
    \/ socket_close(c)

HubNext ==
    \/ \E p \in Solo : HubStep(p)
    \/ \E c \in Conns : ConnStep(c)

SpecHub == Init /\ [][HubNext]_vars

\* the requests of the service specification
SvcUsers == {"u1", "u2"}
SvcPlayerIds == {1, 2}
LifeInputs == {-3}
SetDamageInputs == {7}
DamageAmounts == {500}
SvcConns == {"c1"}

\* games are created, seats are taken and given up, and the game is ended
SvcSeatStep(p) ==
    \/ \E n \in Names, l \in StartingLives, u \in SvcUsers :
          handler_create_game(p, n, l, u)
    \/ create_game_commit(p)
    \/ handler_create_game_room(p)
    \/ \E g \in ReqGameIds, u \in SvcUsers : handle_join_game(p, u, g)
    \/ join_game_commit(p)
    \/ handle_join_game_broadcast(p)
    \/ \E g \in ReqGameIds, pid \in SvcPlayerIds : handle_leave_game(p, pid, g)
    \/ handle_leave_game_call(p)
    \/ leave_game_commit(p)
    \/ handle_leave_game_broadcast(p)
    \/ \E g \in ReqGameIds : handle_end_game(p, g)
    \/ handle_end_game_winner(p)
    \/ handle_end_game_broadcast(p)
    \/ Return(p)

\* life totals, commander damage and partners are changed
SvcPlayStep(p) ==
    \/ \E g \in ReqGameIds, pid \in SvcPlayerIds, d \in LifeInputs :
          update_life(p, g, pid, d)
    \/ update_life_call(p)
    \/ update_life_broadcast(p)
    \/ \E g \in ReqGameIds, pid \in SvcPlayerIds, d \in LifeInputs :
          handle_life_update(p, pid, d, g)
    \/ handle_life_update_broadcast(p)
    \/ \E g \in ReqGameIds, f \in DamageFromIds, t \in DamageToIds,
          d \in SetDamageInputs :
          handle_set_commander_damage(p, f, t, 1, d, g)
    \/ handle_set_commander_damage_call(p)
    \/ handle_set_commander_damage_previous(p)
    \/ handle_set_commander_damage_broadcast(p)
    \/ \E g \in ReqGameIds, f \in DamageFromIds, t \in DamageToIds,
          d \in DamageAmounts :
          handle_update_commander_damage(p, f, t, 1, d, g)
    \/ handle_update_commander_damage_current(p)
    \/ handle_update_commander_damage_call(p)
    \/ handle_update_commander_damage_broadcast(p)
    \/ update_commander_damage_commit(p)
    \/ \E g \in ReqGameIds, pid \in SvcPlayerIds, e \in BOOLEAN :
          handle_toggle_partner(p, pid, e, g)
    \/ handle_toggle_partner_call(p)
    \/ toggle_partner_commit(p)
    \/ handle_toggle_partner_broadcast(p)

\* the handlers of the service run by concurrent requests, the cleanup tasks
\* they spawn, and a connection that relays what they publish
SvcNext ==
    \/ \E p \in Procs : SvcSeatStep(p) \/ SvcPlayStep(p)
    \/ \E g \in GameIds : cleanup_task(g)
    \/ \E c \in SvcConns : ConnStep(c)

SpecSvc == Init /\ [][SvcNext]_vars

\* a table that fills up: the game "Pod1" after its creation by s1 and the
\* joins of s2..s7, in that order
SeededUsers == <<"s1", "s2", "s3", "s4", "s5", "s6", "s7">>
SeededGame ==
    [id |-> "g1", name |-> "Pod1", status |-> "active", starting_life |-> 40]
\* the players' fresh ids
SeededId(i) == 100 + i

RECURSIVE SeatsAfter(_)
\* the rows of games and players after the first n of these joins
SeatsAfter(n) ==
    IF n = 0 THEN [games |-> {SeededGame}, players |-> {}]
    ELSE LET db == SeatsAfter(n - 1)
         IN  [db EXCEPT !.players =
                @ \cup {NewPlayer(db, "g1", SeededUsers[n], SeededId(n))}]

RECURSIVE DamageAfter(_)
\* the rows of commander_damage after the first n of these joins
DamageAfter(n) ==
    IF n = 0 THEN {}
    ELSE DamageAfter(n - 1)
         \cup initialize_commander_damage_for_player_in_tx(
                  SeatsAfter(n), "g1", SeededId(n))

InitFull ==
    /\ games = SeatsAfter(Len(SeededUsers)).games
    /\ players = SeatsAfter(Len(SeededUsers)).players
    /\ commander_damage = DamageAfter(Len(SeededUsers))
    /\ life_changes = <<>>
    /\ has_partner = {}
    /\ nextPlayerId = 1
    /\ proc = [p \in Procs |-> Idle]
    /\ game_rooms = [g \in GameIds |-> NoRoom]
    /\ chans = [ch \in ChanIds |-> <<>>]
    /\ nextChan = 1
    /\ conns = [c \in Conns |-> NoConn]
    /\ cleanups = {}
    /\ served = 0

\* the users who ask for a seat at the table, and those who give one up
FullJoinUsers == {"u1", "u2", "s7"}
FullLeaveUsers == {"s7", "u1"}

FullStep(p) ==
    \/ \E g \in ReqGameIds, u \in FullJoinUsers : join_game_begin(p, g, u)
    \/ join_game_commit(p)
    \/ \E g \in ReqGameIds, u \in FullLeaveUsers : leave_game_begin(p, g, u)
    \/ leave_game_commit(p)
    \/ \E g \in ReqGameIds : end_game(p, g)
    \/ Return(p)

FullNext == \E p \in Procs : FullStep(p)

SpecFull == InitFull /\ [][FullNext]_vars

\* sockets connect while users join through requests
AttachStep(p) ==
    \/ \E n \in Names, l \in StartingLives, u \in SvcUsers :
          handler_create_game(p, n, l, u)
    \/ create_game_commit(p)
    \/ handler_create_game_room(p)
    \/ \E g \in ReqGameIds, u \in SvcUsers : handle_join_game(p, u, g)
    \/ handle_join_game_broadcast(p)
    \/ \E g \in ReqGameIds, u \in SvcUsers : socket_verify_game(p, g, u)
    \/ socket_add_user_to_game(p)
    \/ socket_join_game(p)
    \/ socket_join_game_broadcast(p)
    \/ join_game_commit(p)
    \/ \E g \in ReqGameIds, pid \in SvcPlayerIds : handle_leave_game(p, pid, g)
    \/ handle_leave_game_call(p)
    \/ leave_game_commit(p)
    \/ handle_leave_game_broadcast(p)
    \/ Return(p)

\* the rest of handle_socket for the connection of a socket that has
\* attached or failed to
AttachConnStep(c) ==
    \/ socket_error(c)
    \/ socket_get_game_receiver(c)
    \/ socket_send_initial_game_state(c)
    \/ sender_task_recv(c)
    \/ socket_close(c)

AttachNext ==
    \/ \E p \in Procs : AttachStep(p)
    \/ \E c \in Conns : AttachConnStep(c)

SpecAttach == Init /\ [][AttachNext]_vars

\* the changes of the life specifications
LifeDeltas == {-50, 5}

\* one caller seats players and applies changes that it takes back
LifeStep(p) ==
    \/ \E n \in Names, l \in StartingLives, u \in Users :
          create_game_check(p, n, l, u)
    \/ create_game_commit(p)
    \/ \E g \in ReqGameIds, u \in Users : join_game_begin(p, g, u)
    \/ join_game_commit(p)
    \/ \E g \in ReqGameIds, u \in Users : leave_game_begin(p, g, u)
    \/ leave_game_commit(p)
    \/ \E pid \in ReqPlayerIds, d \in LifeDeltas : life_round_trip(p, pid, d)
    \/ life_round_trip_back(p)
    \/ life_round_trip_return(p)
    \/ Return(p)

LifeNext == \E p \in Solo : LifeStep(p)

SpecLife == Init /\ [][LifeNext]_vars

\* concurrent callers change the life of players while seats are taken
LifeRaceStep(p) ==
    \/ \E n \in Names, l \in StartingLives, u \in SvcUsers :
          create_game_check(p, n, l, u)
    \/ create_game_commit(p)
    \/ \E g \in ReqGameIds, u \in SvcUsers : join_game_begin(p, g, u)
    \/ join_game_commit(p)
    \/ \E pid \in ReqPlayerIds, d \in LifeDeltas :
          update_player_life(p, pid, d)
    \/ Return(p)

LifeRaceNext == \E p \in Procs : LifeRaceStep(p)

SpecLifeRace == Init /\ [][LifeRaceNext]_vars

\* the names of the creation specification
CreateNames == {"Pod1", "Pod2"}

\* concurrent callers create games and end them
CreateStep(p) ==
    \/ \E n \in CreateNames, l \in StartingLives, u \in SvcUsers :
          create_game_check(p, n, l, u)
    \/ create_game_commit(p)
    \/ \E g \in GameIds : end_game(p, g)
    \/ \E g \in GameIds, u \in SvcUsers : join_game_begin(p, g, u)
    \/ join_game_commit(p)
    \/ Return(p)

CreateNext == \E p \in Procs : CreateStep(p)

SpecCreate == Init /\ [][CreateNext]_vars

\* one caller runs every operation of the repository on a game, before and
\* after the game is ended
StatusStep(p) ==
    \/ \E n \in Names, l \in StartingLives, u \in SvcUsers :
          create_game_check(p, n, l, u)
    \/ create_game_commit(p)
    \/ \E g \in ReqGameIds, u \in SvcUsers : join_game_begin(p, g, u)
    \/ join_game_commit(p)
    \/ \E g \in ReqGameIds, u \in SvcUsers : leave_game_begin(p, g, u)
    \/ leave_game_commit(p)
    \/ \E g \in ReqGameIds : end_game(p, g)
    \/ \E pid \in SvcPlayerIds, d \in LifeInputs : update_player_life(p, pid, d)
    \/ \E g \in ReqGameIds, f \in DamageFromIds, t \in DamageToIds,
          d \in SetDamageInputs :
          update_commander_damage_begin(p, g, f, t, 1, d)
    \/ update_commander_damage_commit(p)
    \/ \E g \in ReqGameIds, pid \in SvcPlayerIds, e \in BOOLEAN :
          toggle_partner_begin(p, g, pid, e)
    \/ toggle_partner_commit(p)
    \/ Return(p)

StatusNext == \E p \in Solo : StatusStep(p)

SpecStatus == Init /\ [][StatusNext]_vars

\* a game whose creator's request has returned: the rows create_game writes
\* for "Pod1" created by u1 and the room handlers.rs create_game registers
InitConn ==
    /\ games = SeatsAfter(0).games
    /\ players = {NewPlayer(SeatsAfter(0), "g1", "u1", SeededId(1))}
    /\ commander_damage = {}
    /\ life_changes = <<>>
    /\ has_partner = {}
    /\ nextPlayerId = 1
    /\ proc = [p \in Procs |-> Idle]
    /\ game_rooms = EntryOrInsert([g \in GameIds |-> NoRoom], "g1", 1)
    /\ chans = [ch \in ChanIds |-> <<>>]
    /\ nextChan = 2
    /\ conns = [c \in Conns |-> NoConn]
    /\ cleanups = {}
    /\ served = 0

\* the players the clients' UpdateLife frames name: the creator and the first
\* player to join
ConnPlayerIds == {SeededId(1), 1}

\* handle_socket for one connection: verify, attach, subscribe, initial state
ConnAttachStep(c) ==
    \/ \E g \in ReqGameIds, u \in SvcUsers :
          socket_verify_game(TaskOf(c), g, u)
    \/ socket_add_user_to_game(TaskOf(c))
    \/ socket_join_game(TaskOf(c))
    \/ join_game_commit(TaskOf(c))
    \/ socket_join_game_broadcast(TaskOf(c))
    \/ socket_error(c)
    \/ socket_get_game_receiver(c)
    \/ socket_send_initial_game_state(c)

\* the connection's sender_task and receiver_task, and its client
ConnStreamStep(c) ==
    \/ sender_task_recv(c)
    \/ socket_close(c)
    \/ \E pid \in ConnPlayerIds, d \in LifeInputs :
          receiver_task_update_life(c, pid, d)
    \/ handle_life_update_broadcast(TaskOf(c))
    \/ receiver_task_end_game(c)
    \/ handle_end_game_winner(TaskOf(c))
    \/ handle_end_game_broadcast(TaskOf(c))
    \/ receiver_task_invalid_json(c)
    \/ receiver_task_err(c)
    \/ receiver_task_close(c)

\* clients connect to the game, send frames and go away, and the cleanup
\* tasks that EndGame spawns run
ConnNext ==
    \/ \E c \in Conns : ConnAttachStep(c) \/ ConnStreamStep(c)
    \/ \E g \in GameIds : cleanup_task(g)

SpecConn == InitConn /\ [][ConnNext]_vars

\* the steps the server takes by itself: the tokio runtime runs every task
\* that is ready, and the sleep of a cleanup task ends.  What a client does
\* (connect, send a frame, go away) is up to the client.
ConnServerStep ==
    \/ \E c \in Conns :
          \/ socket_add_user_to_game(TaskOf(c))
          \/ socket_join_game(TaskOf(c))
          \/ join_game_commit(TaskOf(c))
          \/ socket_join_game_broadcast(TaskOf(c))
          \/ socket_error(c)
          \/ socket_get_game_receiver(c)
          \/ socket_send_initial_game_state(c)
          \/ sender_task_recv(c)
          \/ handle_life_update_broadcast(TaskOf(c))
          \/ handle_end_game_winner(TaskOf(c))
          \/ handle_end_game_broadcast(TaskOf(c))
          \/ receiver_task_err(c)
          \/ receiver_task_close(c)
    \/ \E g \in GameIds : cleanup_task(g)

SpecConnFair == SpecConn /\ WF_vars(ConnServerStep)

\* a game with two seated players and its room, as create_game and one join
\* leave them: the entries between the two players hold damage 0
InitDamageRace ==
    /\ games = SeatsAfter(2).games
    /\ players = SeatsAfter(2).players
    /\ commander_damage = DamageAfter(2)
    /\ life_changes = <<>>
    /\ has_partner = {}
    /\ nextPlayerId = 1
    /\ proc = [p \in Procs |-> Idle]
    /\ game_rooms = EntryOrInsert([g \in GameIds |-> NoRoom], "g1", 1)
    /\ chans = [ch \in ChanIds |-> <<>>]
    /\ nextChan = 2
    /\ conns = [c \in Conns |-> NoConn]
    /\ cleanups = {}
    /\ served = 0

\* the damage_amount of the UpdateCommanderDamage frames
RaceDamageAmounts == {2, 3}

\* UpdateCommanderDamage frames for the entry from the first to the second
\* player, handled by concurrent receiver tasks
DamageRaceStep(p) ==
    \/ \E d \in RaceDamageAmounts :
          handle_update_commander_damage(p, SeededId(1), SeededId(2), 1, d,
                                         "g1")
    \/ handle_update_commander_damage_current(p)
    \/ handle_update_commander_damage_call(p)
    \/ update_commander_damage_commit(p)
    \/ handle_update_commander_damage_broadcast(p)
    \/ Return(p)

DamageRaceNext == \E p \in Procs : DamageRaceStep(p)

SpecDamageRace == InitDamageRace /\ [][DamageRaceNext]_vars

\* two games, each with its creator seated and its room registered, as two
\* create_game requests leave them
TwoGames ==
    [games |-> {SeededGame, [SeededGame EXCEPT !.id = "g2", !.name = "Pod2"]},
     players |-> {}]

InitTwoGames ==
    /\ games = TwoGames.games
    /\ players = {NewPlayer(TwoGames, "g1", "s1", SeededId(1)),
                  NewPlayer(TwoGames, "g2", "s2", SeededId(2))}
    /\ commander_damage = {}
    /\ life_changes = <<>>
    /\ has_partner = {}
    /\ nextPlayerId = 1
    /\ proc = [p \in Procs |-> Idle]
    /\ game_rooms = EntryOrInsert(
          EntryOrInsert([g \in GameIds |-> NoRoom], "g1", 1), "g2", 2)
    /\ chans = [ch \in ChanIds |-> <<>>]
    /\ nextChan = 3
    /\ conns = [c \in Conns |-> NoConn]
    /\ cleanups = {}
    /\ served = 0

\* the players that the life requests name: the two creators
TwoGamesPlayerIds == {SeededId(1), SeededId(2)}

\* UpdateLife frames and update_life requests on either game, naming either
\* player
TwoGamesStep(p) ==
    \/ \E g \in GameIds, pid \in TwoGamesPlayerIds, d \in LifeInputs :
          handle_life_update(p, pid, d, g)
    \/ handle_life_update_broadcast(p)
    \/ \E g \in GameIds, pid \in TwoGamesPlayerIds, d \in LifeInputs :
          update_life(p, g, pid, d)
    \/ update_life_call(p)
    \/ update_life_broadcast(p)

TwoGamesNext == \E p \in Procs : TwoGamesStep(p)

SpecTwoGames == InitTwoGames /\ [][TwoGamesNext]_vars

\* =================================================================== claims
Seated(g) == PlayersOf(CurrentDb, g)

SeatedIds(g) == {r.id : r \in Seated(g)}

\* the rows of the entry from -> to of commander num in game g
Entries(table, g, from, to, num) ==
    {r \in table : SameKey(r, CdRow(g, from, to, num, 0))}

HasKey(table, r) == \E s \in table : SameKey(r, s)

\* caller p's operation op returned in this step
Returns(p, op) ==
    proc[p].pc # "ret" /\ proc'[p].pc = "ret" /\ proc'[p].op = op

\* C1: after any sequence of successful joins and leaves the positions of the
\* seated players of a game are exactly 1..N, N the number of seated players
C1_PositionsDense ==
    \A g \in GameIds :
        {r.position : r \in Seated(g)} = 1..Cardinality(Seated(g))

\* a leave has shifted a player down and a later join has taken the last seat
C1_Witness ==
    \E r \in players, s \in players :
        /\ r.game_id = s.game_id
        /\ r.position < r.id
        /\ s.id > r.id
        /\ s.position = Cardinality(Seated(r.game_id))
        /\ s.position >= 2

\* C2: when joins race, each join that succeeds seats its player at a position
\* no seated player holds, the new number of seated players
C2_RacingJoinsDistinct ==
    [][\A p \in Procs :
          (Returns(p, "join_game") /\ proc'[p].result = "ok") =>
              \E r \in players' \ players :
                  /\ r.game_id = proc[p].game
                  /\ players' = players \cup {r}
                  /\ r.position \notin {s.position : s \in Seated(r.game_id)}
                  /\ r.position = Cardinality(Seated(r.game_id)) + 1]_vars

\* two joins read the same player count; one has committed, the other cannot
C2_Witness ==
    /\ proc["a"].pc = "ret" /\ proc["a"].op = "join_game"
    /\ proc["a"].result = "ok"
    /\ proc["b"].pc = "join" /\ proc["b"].stale
    /\ Cardinality(players) >= 2

\* C6: for every ordered pair of distinct seated players exactly one
\* commander-1 entry exists, and every commander-1 entry is created with
\* damage 0
C6_SlotOneComplete ==
    \A g \in GameIds : \A a \in SeatedIds(g), b \in SeatedIds(g) :
        a # b => Cardinality(Entries(commander_damage, g, a, b, 1)) = 1

C6_SlotOneCreatedZero ==
    \A r \in commander_damage' :
        (r.commander_number = 1 /\ ~HasKey(commander_damage, r)) => r.damage = 0

C6_SlotOneMatrix == []C6_SlotOneComplete /\ [][C6_SlotOneCreatedZero]_vars

\* three players are seated after one has left, and an entry carries damage
C6_Witness ==
    /\ Cardinality(players) >= 3
    /\ \E r \in players : r.position < r.id
    /\ \E r \in commander_damage : r.commander_number = 1 /\ r.damage > 0

\* C7 (as claimed): a commander-2 entry exists only if its source player has
\* partner enabled
C7_SlotTwoOnlyForPartnerSource ==
    \A r \in commander_damage :
        r.commander_number = 2 => r.from_player_id \in has_partner

\* C7 (amended): toggle_partner(A, _) creates commander-2 entries only when
\* it enables, and only with A as source or destination; after disabling, no
\* commander-2 entry with A as source or destination is left
C7_ToggleScope ==
    [][\A p \in Procs :
          (Returns(p, "toggle_partner") /\ proc'[p].result = "ok") =>
              /\ \A r \in commander_damage' :
                    (r.commander_number = 2 /\ ~HasKey(commander_damage, r)) =>
                        /\ proc[p].enable
                        /\ proc[p].player \in has_partner'
                        /\ (r.from_player_id = proc[p].player
                            \/ r.to_player_id = proc[p].player)
              /\ ~proc[p].enable =>
                    /\ proc[p].player \notin has_partner'
                    /\ \A r \in commander_damage' :
                          r.commander_number = 2 =>
                              /\ r.from_player_id # proc[p].player
                              /\ r.to_player_id # proc[p].player]_vars

\* a player without partner is the source of a commander-2 entry that an
\* enabling toggle of another player created
C7_Witness ==
    /\ proc["a"].pc = "ret" /\ proc["a"].op = "toggle_partner"
    /\ proc["a"].result = "ok" /\ proc["a"].enable
    /\ \E r \in commander_damage :
          /\ r.commander_number = 2
          /\ r.to_player_id = proc["a"].player
          /\ r.from_player_id \notin has_partner

\* C8: after a successful toggle_partner(A, true) commander-2 entries exist in
\* both directions between A and every other seated player, every entry that
\* existed keeps its damage, and enabling when they all exist changes nothing
C8_EnablePartner ==
    [][\A p \in Procs :
          (Returns(p, "toggle_partner") /\ proc'[p].result = "ok"
              /\ proc[p].enable) =>
              LET g == proc[p].game
                  A == proc[p].player
                  others == {r.id : r \in PlayersOf([games |-> games',
                                 players |-> players'], g)} \ {A}
              IN  /\ \A o \in others :
                        /\ Cardinality(Entries(commander_damage', g, A, o, 2)) = 1
                        /\ Cardinality(Entries(commander_damage', g, o, A, 2)) = 1
                  /\ commander_damage \subseteq commander_damage'
                  /\ (\A o \in others :
                        /\ Entries(commander_damage, g, A, o, 2) # {}
                        /\ Entries(commander_damage, g, o, A, 2) # {})
                     => commander_damage' = commander_damage]_vars

\* partner was enabled for a player while one of its commander-2 entries
\* carried damage, and the entry still carries it
C8_Witness ==
    /\ proc["a"].pc = "ret" /\ proc["a"].op = "toggle_partner"
    /\ proc["a"].result = "ok" /\ proc["a"].enable
    /\ Cardinality(players) >= 3
    /\ \E r \in commander_damage :
          /\ r.commander_number = 2 /\ r.damage > 0
          /\ (r.from_player_id = proc["a"].player
              \/ r.to_player_id = proc["a"].player)

\* C9: after a successful toggle_partner(A, false) no commander-2 entry has A
\* as source or destination, and every other entry is unchanged
C9_DisablePartner ==
    [][\A p \in Procs :
          (Returns(p, "toggle_partner") /\ proc'[p].result = "ok"
              /\ ~proc[p].enable) =>
              LET A == proc[p].player
                  OfA(r) == /\ r.commander_number = 2
                            /\ (r.from_player_id = A \/ r.to_player_id = A)
              IN  /\ \A r \in commander_damage' : ~OfA(r)
                  /\ commander_damage' = {r \in commander_damage : ~OfA(r)}]_vars

\* partner was disabled for a player; commander-2 entries between two other
\* players and commander-1 entries of the player are still there
C9_Witness ==
    /\ proc["a"].pc = "ret" /\ proc["a"].op = "toggle_partner"
    /\ proc["a"].result = "ok" /\ ~proc["a"].enable
    /\ \E r \in commander_damage :
          /\ r.commander_number = 2
          /\ r.from_player_id # proc["a"].player
          /\ r.to_player_id # proc["a"].player
    /\ \E r \in commander_damage :
          /\ r.commander_number = 1 /\ r.damage > 0
          /\ r.from_player_id = proc["a"].player

\* C10: join_game on a finished game fails with a BadRequest (Invalid) and
\* changes no player, position or commander-damage entry
C10_JoinFinishedRejected ==
    [][\A p \in Procs :
          (/\ proc[p].pc = "idle"
           /\ proc'[p].op = "join_game"
           /\ \E r \in games : r.id = proc'[p].game /\ r.status = "finished") =>
              /\ proc'[p].pc = "ret"
              /\ proc'[p].result = "Cannot join finished game"
              /\ ErrorKind(proc'[p].result) = "BadRequest"
              /\ players' = players
              /\ commander_damage' = commander_damage]_vars

\* a join on a finished game with seated players was rejected
C10_Witness ==
    /\ \E p \in Procs :
          /\ proc[p].pc = "ret" /\ proc[p].op = "join_game"
          /\ proc[p].result = "Cannot join finished game"
    /\ \E r \in games : r.status = "finished"
    /\ Cardinality(players) >= 2

\* the messages a channel accepts in this step
Published(ch) ==
    IF Len(chans'[ch]) > Len(chans[ch])
    THEN {chans'[ch][Len(chans'[ch])].val} ELSE {}

\* some handler's call op has returned Ok and the handler has not finished
CallCommitted(op, Same(_)) ==
    \E p \in Procs :
        /\ proc[p].pc \in {"ret", "previous", "winner"}
        /\ proc[p].op = op
        /\ proc[p].result = "ok"
        /\ Same(proc[p])

\* the change message e announces is committed: its life_changes row is
\* written, its player's row was inserted, or inserted and deleted, its game
\* is finished, or the call that set the entry or switched the partner has
\* returned Ok
CommittedBefore(e) ==
    CASE e.type = "LifeUpdate" ->
            \E i \in 1..Len(life_changes) :
                /\ life_changes[i].player_id = e.player_id
                /\ life_changes[i].change_amount = e.change
                /\ life_changes[i].new_life_total = e.value
      [] e.type = "PlayerJoined" -> e.player_id \in 1..(nextPlayerId - 1)
      [] e.type = "PlayerLeft" ->
            /\ e.player_id \in 1..(nextPlayerId - 1)
            /\ \A r \in players : r.id # e.player_id
      [] e.type = "GameEnded" ->
            \E r \in games : r.id = e.game_id /\ r.status = "finished"
      [] e.type = "CommanderDamageUpdate" ->
            LET Same(t) == /\ t.player = e.player_id /\ t.to = e.to_player_id
                           /\ t.num = e.commander_number /\ t.dmg = e.value
            IN  CallCommitted("update_commander_damage", Same)
      [] e.type = "PartnerToggled" ->
            LET Same(t) == t.player = e.player_id /\ t.enable = e.has_partner
            IN  CallCommitted("toggle_partner", Same)
      [] OTHER -> TRUE

\* C3: the mutation announced by an event a subscriber receives was committed
\* to the store before the event was published: whenever a room's channel
\* accepts a message the change it announces is already committed, and a
\* subscriber is relayed only messages its channel accepted
C3_CommitBeforePublish ==
    [][/\ \A ch \in ChanIds : \A e \in Published(ch) : CommittedBefore(e)
       /\ \A c \in Conns :
             Len(conns'[c].delivered) > Len(conns[c].delivered) =>
                 \E i \in 1..Len(chans[conns[c].rx_chan]) :
                     chans[conns[c].rx_chan][i] =
                         conns'[c].delivered[Len(conns'[c].delivered)]]_vars

\* a subscriber has received the LifeUpdate of a committed life change, and
\* a join whose transaction that commit made fail has announced nothing
C3_Witness ==
    /\ \E c \in Conns :
          /\ Len(conns[c].delivered) = 1
          /\ conns[c].delivered[1].val.type = "LifeUpdate"
          /\ Len(chans[conns[c].rx_chan]) = 1
    /\ \E p \in Procs :
          /\ proc[p].pc = "ret" /\ proc[p].h = "handle_join_game"
          /\ proc[p].result = "Database error"
    /\ Len(life_changes) = 1

\* C4: callers that get-or-create the room of one game all observe one room:
\* a room that is registered is never replaced by another one, a receiver is
\* handed out on the registered channel, and all receivers of a game whose
\* channel is still open are on that one channel
C4_RoomNotReplaced ==
    \A g \in GameIds :
        /\ (RoomExists(g) /\ game_rooms'[g].sender # 0) =>
              game_rooms'[g].sender = game_rooms[g].sender
        /\ \A c \in Conns :
              (conns[c].pc = "idle" /\ conns'[c].pc = "streaming"
                  /\ conns'[c].game = g) =>
                  conns'[c].rx_chan = game_rooms[g].sender

C4_OneOpenChannel ==
    \A c \in Conns :
        (conns[c].pc = "streaming" /\ ~Closed(conns[c].rx_chan)) =>
            conns[c].rx_chan = game_rooms[conns[c].game].sender

C4_SingleRoom == []C4_OneOpenChannel /\ [][C4_RoomNotReplaced]_vars

\* several calls have got-or-created the room of one game: it holds the users
\* of all of them, one channel was ever made, and both connections read it
C4_Witness ==
    \E g \in GameIds :
        /\ game_rooms[g].connected_users = HubUsers
        /\ nextChan = 2
        /\ \A c \in Conns :
              /\ conns[c].pc = "streaming"
              /\ conns[c].rx_chan = game_rooms[g].sender
              /\ Len(conns[c].delivered) >= 1

\* C5: of two messages published to a room, every subscriber that receives
\* both receives first the one that was published first
C5_DeliveredInPublishOrder ==
    \A c \in Conns :
        \A i \in 1..Len(conns[c].delivered), j \in 1..Len(conns[c].delivered) :
            i < j => conns[c].delivered[i].pos < conns[c].delivered[j].pos

\* one subscriber has received three messages; another one, subscribed after
\* the first was published, the last two
C5_Witness ==
    \E c \in Conns, d \in Conns :
        /\ Len(conns[c].delivered) = 3
        /\ Len(conns[d].delivered) = 2
        /\ conns[d].delivered[1].pos = 2
        /\ conns[d].rx_chan = conns[c].rx_chan

\* C11: a join on a game with MAX_PLAYERS_PER_GAME seated players fails and
\* writes nothing, with "Game is full" (a BadRequest) when the game is active
\* and the user is not seated in it; no game ever has more than
\* MAX_PLAYERS_PER_GAME seated players, also when joins race
C11_JoinFullRejected ==
    \A p \in Procs :
        (/\ proc[p].pc = "idle"
         /\ proc'[p].op = "join_game"
         /\ Cardinality(Seated(proc'[p].game)) >= MAX_PLAYERS_PER_GAME) =>
            /\ proc'[p].pc = "ret"
            /\ proc'[p].result # "ok"
            /\ UNCHANGED storeVars
            /\ (/\ \E r \in games : r.id = proc'[p].game /\ r.status = "active"
                /\ \A r \in Seated(proc'[p].game) :
                      r.clerk_user_id # proc'[p].user) =>
                   /\ proc'[p].result = "Game is full"
                   /\ ErrorKind(proc'[p].result) = "BadRequest"

C11_AtMostEightSeated ==
    \A g \in GameIds : Cardinality(Seated(g)) <= MAX_PLAYERS_PER_GAME

C11_CapacityEight == []C11_AtMostEightSeated /\ [][C11_JoinFullRejected]_vars

\* two joins raced for the eighth seat: one took it, the other failed at its
\* write, and the join that came after them was turned away at the full table
C11_Witness ==
    /\ Cardinality(Seated("g1")) = MAX_PLAYERS_PER_GAME
    /\ nextPlayerId >= 2
    /\ \E p \in Procs, q \in Procs :
          /\ proc[p].pc = "ret" /\ proc[p].op = "join_game"
          /\ proc[p].result = "Game is full"
          /\ proc[q].pc = "ret" /\ proc[q].op = "join_game"
          /\ proc[q].result = "Database error"

\* C12: a join by a user who is seated in an active game fails with "User
\* already in game" (a BadRequest) and writes nothing, and no user holds two
\* seats of one game, also when a join request and the join of the user's
\* connecting socket race
C12_SeatedJoinRejected ==
    \A p \in Procs :
        (/\ proc[p].pc \in {"idle", "attach"}
         /\ proc'[p].op = "join_game"
         /\ \E r \in games : r.id = proc'[p].game /\ r.status = "active"
         /\ \E r \in Seated(proc'[p].game) :
               r.clerk_user_id = proc'[p].user) =>
            /\ proc'[p].pc = "ret"
            /\ proc'[p].result = "User already in game"
            /\ ErrorKind(proc'[p].result) = "BadRequest"
            /\ UNCHANGED storeVars

C12_OneSeatEach ==
    \A r \in players, s \in players :
        (r.game_id = s.game_id /\ r.clerk_user_id = s.clerk_user_id) => r = s

C12_OneSeatPerUser == []C12_OneSeatEach /\ [][C12_SeatedJoinRejected]_vars

\* a user's join request and the join of the same user's connecting socket
\* began before either had written: the request took the seat and the socket's
\* join failed at its write
C12_Witness ==
    \E p \in Procs, q \in Procs :
        /\ proc[p].h = "handle_join_game" /\ proc[p].pc = "ret"
        /\ proc[p].result = "ok"
        /\ proc[q].h = "handle_socket" /\ proc[q].pc = "ret"
        /\ proc[q].op = "join_game"
        /\ proc[q].result = "Database error"
        /\ proc[q].user = proc[p].user /\ proc[q].game = proc[p].game
        /\ \E r \in players : r.clerk_user_id = proc[p].user

\* the player a successful leave_game of caller p removes in this step
Leaves(p, row) ==
    /\ proc[p].pc = "leave"
    /\ proc'[p].pc = "ret" /\ proc'[p].result = "ok"
    /\ row \in Seated(proc[p].game)
    /\ row.clerk_user_id = proc[p].user

\* C13: when a player leaves, exactly the players of the game seated behind
\* the removed player move down by one seat and every other player keeps the
\* position, so the remaining players keep their relative order
C13_LeaveShiftsLaterSeats ==
    [][\A p \in Procs : \A row \in players :
          Leaves(p, row) =>
              /\ {r.id : r \in players'} = {r.id : r \in players} \ {row.id}
              /\ \A r \in players : \A s \in players' :
                    r.id = s.id =>
                        /\ s = [r EXCEPT !.position =
                                  IF r.game_id = row.game_id
                                     /\ r.position > row.position
                                  THEN r.position - 1 ELSE r.position]
              /\ \A r1 \in players, r2 \in players :
                  \A s1 \in players', s2 \in players' :
                    (/\ r1.id = s1.id /\ r2.id = s2.id
                     /\ r1.game_id = r2.game_id
                     /\ r1.position < r2.position) =>
                        s1.position < s2.position]_vars

\* the second of three players has left: the first keeps seat 1 and the third
\* has moved from seat 3 to seat 2
C13_Witness ==
    /\ \E p \in Procs :
          /\ proc[p].pc = "ret" /\ proc[p].op = "leave_game"
          /\ proc[p].result = "ok"
    /\ \E r \in players, s \in players :
          /\ r.id = 1 /\ r.position = 1
          /\ s.id = 3 /\ s.position = 2
    /\ Cardinality(players) = 2

\* C14: a successful leave_game removes every commander-damage entry, of
\* either commander, that has the removed player as source or destination,
\* and removes or changes no other entry
C14_LeaveClearsDamage ==
    [][\A p \in Procs : \A row \in players :
          Leaves(p, row) =>
              /\ \A r \in commander_damage' :
                    r.from_player_id # row.id /\ r.to_player_id # row.id
              /\ \A r \in commander_damage :
                    (r.from_player_id # row.id /\ r.to_player_id # row.id) =>
                        r \in commander_damage']_vars

\* a player has left a game in which damage was dealt between two others and
\* a partner's commander-2 entries exist: those entries are still there
C14_Witness ==
    /\ \E p \in Procs :
          /\ proc[p].pc = "ret" /\ proc[p].op = "leave_game"
          /\ proc[p].result = "ok"
    /\ Cardinality(players) = 2
    /\ nextPlayerId >= 4
    /\ \E r \in commander_damage : r.commander_number = 1 /\ r.damage > 0
    /\ \E r \in commander_damage : r.commander_number = 2

\* C15: update_commander_damage returns a BadRequest and writes nothing when
\* new_damage is below 0 or above MaxCommanderDamage or when from and to are
\* the same player; every stored entry has damage in 0..MaxCommanderDamage and
\* two different players
C15_BadDamageRejected ==
    \A p \in Procs :
        (/\ proc[p].pc = "idle"
         /\ proc'[p].op = "update_commander_damage"
         /\ \/ proc'[p].dmg < 0
            \/ proc'[p].dmg > MaxCommanderDamage
            \/ proc'[p].player = proc'[p].to) =>
            /\ proc'[p].pc = "ret"
            /\ ErrorKind(proc'[p].result) = "BadRequest"
            /\ UNCHANGED storeVars

C15_EntriesInRange ==
    \A r \in commander_damage :
        /\ r.damage \in 0..MaxCommanderDamage
        /\ r.from_player_id # r.to_player_id

C15_DamageValidated == []C15_EntriesInRange /\ [][C15_BadDamageRejected]_vars

\* a seated player's damage to himself was rejected in a game that has an
\* entry with damage dealt
C15_Witness ==
    /\ \E p \in Procs :
          /\ proc[p].pc = "ret" /\ proc[p].op = "update_commander_damage"
          /\ proc[p].player = proc[p].to
          /\ proc[p].dmg \in 0..MaxCommanderDamage
          /\ proc[p].result
                = "Players cannot deal commander damage to themselves"
    /\ \E r \in commander_damage : r.damage > 0

\* the life of player pid in the table tbl
LifeOf(tbl, pid) == (CHOOSE r \in tbl : r.id = pid).current_life

RECURSIVE SumOfChanges(_, _)
\* the sum of the change_amount of the rows of player pid in rows
SumOfChanges(rows, pid) ==
    IF rows = <<>> THEN 0
    ELSE (IF Head(rows).player_id = pid THEN Head(rows).change_amount ELSE 0)
         + SumOfChanges(Tail(rows), pid)

\* C16: update_player_life(p, d) followed by update_player_life(p, -d) leaves
\* player p with the life it had before the two calls, and the two calls have
\* appended two LifeChange rows, of p, whose change amounts sum to zero
C16_LifeRoundTrip ==
    [][\A p \in Procs :
          (/\ proc[p].h = "life_round_trip"
           /\ proc'[p].h = "life_round_trip_back") =>
              /\ proc[p].result = "ok" /\ proc'[p].result = "ok"
              /\ LifeOf(players', proc[p].player) = proc[p].before
              /\ proc'[p].out = proc[p].before
              /\ Len(life_changes') = Len(life_changes) + 1
              /\ Len(life_changes) >= 1
              /\ LET first == life_changes[Len(life_changes)]
                     second == life_changes'[Len(life_changes')]
                 IN  /\ first.player_id = proc[p].player
                     /\ second.player_id = proc[p].player
                     /\ first.change_amount + second.change_amount = 0
                     /\ first.change_amount = proc[p].amount
                     /\ SubSeq(life_changes', 1, Len(life_changes))
                            = life_changes]_vars

\* a change that took a player below zero has been taken back
C16_Witness ==
    \E p \in Procs :
        /\ proc[p].h = "life_round_trip_back" /\ proc[p].result = "ok"
        /\ proc[p].amount > 0
        /\ Len(life_changes) = 2
        /\ life_changes[1].new_life_total < 0
        /\ \E r \in players :
              r.id = proc[p].player /\ r.current_life = proc[p].before

\* C17: a successful update_player_life adds change_amount to the player's
\* life and appends one LifeChange row that holds the change and the life
\* after it; a call on a player that does not exist returns PlayerNotFound
\* and appends nothing; whatever the interleaving of concurrent calls, every
\* player's life is the starting life plus the sum of its LifeChange rows
C17_UpdateStep ==
    \A p \in Procs :
        (proc[p].pc = "idle" /\ proc'[p].op = "update_player_life") =>
            IF \E r \in players : r.id = proc'[p].player
            THEN /\ proc'[p].result = "ok"
                 /\ LifeOf(players', proc'[p].player)
                        = LifeOf(players, proc'[p].player) + proc'[p].amount
                 /\ life_changes' = Append(life_changes,
                        life_changes'[Len(life_changes')])
                 /\ LET row == life_changes'[Len(life_changes')]
                    IN  /\ row.player_id = proc'[p].player
                        /\ row.change_amount = proc'[p].amount
                        /\ row.new_life_total
                               = LifeOf(players', proc'[p].player)
                 /\ \A r \in players : r.id # proc'[p].player =>
                        r \in players'
            ELSE /\ proc'[p].result = "Player not found"
                 /\ ErrorKind(proc'[p].result) = "PlayerNotFound"
                 /\ UNCHANGED storeVars

C17_LifeIsSumOfChanges ==
    \A r \in players : \A g \in games :
        r.game_id = g.id =>
            r.current_life = g.starting_life + SumOfChanges(life_changes, r.id)

C17_LifeAtomic == []C17_LifeIsSumOfChanges /\ [][C17_UpdateStep]_vars

\* two callers have changed the life of the same player, a third call named
\* a player that does not exist
C17_Witness ==
    /\ Len(life_changes) = 2
    /\ life_changes[1].player_id = life_changes[2].player_id
    /\ life_changes[1].change_amount # life_changes[2].change_amount
    /\ proc["a"].op = "update_player_life" /\ proc["a"].result = "ok"
    /\ proc["b"].op = "update_player_life"
    /\ proc["b"].result = "Player not found"

\* C18: create_game with the name of an active game returns BadRequest("Game
\* name already exists") and writes nothing, at its check or, when another
\* create_game with the name committed after the check, at its INSERT; no two
\* active games have the same name
C18_TakenNameRejected ==
    \A p \in Procs :
        (/\ proc[p].pc \in {"idle", "create"}
         /\ proc'[p].op = "create_game"
         /\ proc'[p].pc # proc[p].pc
         /\ \E r \in games : r.name = proc'[p].name /\ r.status = "active") =>
            /\ proc'[p].pc = "ret"
            /\ proc'[p].result = "Game name already exists"
            /\ ErrorKind(proc'[p].result) = "BadRequest"
            /\ UNCHANGED storeVars

C18_ActiveNamesDistinct ==
    \A r \in games, s \in games :
        (r.status = "active" /\ s.status = "active" /\ r.name = s.name) =>
            r = s

C18_UniqueActiveName ==
    []C18_ActiveNamesDistinct /\ [][C18_TakenNameRejected]_vars

\* two creations of one name raced: the name was free when the second one
\* checked it and is taken now that it is about to insert, while a game with
\* another name is active too
C18_Witness ==
    \E p \in Procs :
        /\ proc[p].pc = "create"
        /\ \E r \in games : r.name = proc[p].name /\ r.status = "active"
        /\ \E r \in games : r.name # proc[p].name /\ r.status = "active"

\* C19: a create_game that succeeds adds, in one step, the game with status
\* active and its creator as the game's only player, at position 1 with the
\* game's starting life; a create_game that fails leaves games and players
\* as they were
C19_CreateAtomic ==
    [][\A p \in Procs :
          (/\ proc[p].pc \in {"idle", "create"}
           /\ proc'[p].op = "create_game"
           /\ proc'[p].pc = "ret") =>
              IF proc'[p].result = "ok"
              THEN \E game \in games' \ games : \E row \in players' \ players :
                      /\ games' = games \cup {game}
                      /\ players' = players \cup {row}
                      /\ game.id = proc'[p].game
                      /\ game.status = "active"
                      /\ game.name = proc[p].name
                      /\ game.starting_life = proc[p].dmg
                      /\ PlayersOf([games |-> games', players |-> players'],
                                   game.id) = {row}
                      /\ row.clerk_user_id = proc[p].user
                      /\ row.position = 1
                      /\ row.current_life = game.starting_life
                      /\ row.id = proc'[p].out
                      /\ commander_damage' = commander_damage
              ELSE UNCHANGED storeVars]_vars

\* a creation succeeded after an earlier game, and a creation by the other
\* caller failed
C19_Witness ==
    \E p \in Procs, q \in Procs :
        /\ proc[p].pc = "ret" /\ proc[p].op = "create_game"
        /\ proc[p].result = "ok" /\ proc[p].game = "g2"
        /\ proc[q].pc = "ret" /\ proc[q].op = "create_game"
        /\ proc[q].result = "Game name already exists"
        /\ Cardinality(games) = 2

\* C20: a finished game stays finished and no game is removed, whatever
\* operation runs: a game's status changes at most once, from active to
\* finished
C20_StatusOneWay ==
    [][\A r \in games :
          \E s \in games' :
              /\ s.id = r.id
              /\ r.status = "finished" => s.status = "finished"
              /\ s.status \in {"active", "finished"}
              /\ s.status # r.status =>
                    r.status = "active" /\ s.status = "finished"]_vars

\* end_game has been called again on a game that was finished before a second
\* game was created, after life and commander damage had changed
C20_Witness ==
    /\ \E r \in games : r.id = "g1" /\ r.status = "finished"
    /\ \E r \in games : r.id = "g2"
    /\ proc["a"].pc = "ret" /\ proc["a"].op = "end_game"
    /\ proc["a"].game = "g1" /\ proc["a"].result = "ok"
    /\ Len(life_changes) >= 1
    /\ \E r \in commander_damage : r.damage > 0

\* the game is finished
Finished(g) == \E r \in games : r.id = g /\ r.status = "finished"

\* the handlers that change life totals, commander damage, partners and seats
MutationHandlers ==
    {"update_life", "handle_life_update", "handle_set_commander_damage",
     "handle_update_commander_damage", "handle_toggle_partner",
     "handle_join_game", "handle_leave_game"}

\* C21: every mutation attempted on a finished game (life update, commander
\* damage change, partner toggle, join, leave) is rejected and leaves the
\* persisted state unchanged, through the request handlers and through the
\* socket's handlers alike: while a game is finished no step changes its
\* players, its commander damage or its life changes, and a mutation handler
\* that takes a request for it does not return Ok
C21_FinishedGameRejectsMutations ==
    [][\A g \in GameIds :
          Finished(g) =>
              /\ {r \in players' : r.game_id = g}
                     = {r \in players : r.game_id = g}
              /\ {r \in commander_damage' : r.game_id = g}
                     = {r \in commander_damage : r.game_id = g}
              /\ SelectSeq(life_changes', LAMBDA x : x.game_id = g)
                     = SelectSeq(life_changes, LAMBDA x : x.game_id = g)
              /\ \A p \in Procs :
                    (/\ proc[p].pc = "idle"
                     /\ proc'[p].pc = "ret"
                     /\ proc'[p].h \in MutationHandlers
                     /\ proc'[p].game = g) => proc'[p].result # "ok"]_vars

\* C22: when one of a connection's activities ends the whole connection
\* tears down: once the relay (sender_task) of a connection has ended no
\* further frame of that connection is dispatched to a handler, and once its
\* reader (receiver_task) has ended no further room event is relayed to its
\* client
C22_WholeConnectionTearsDown ==
    [][\A c \in Conns :
          /\ conns[c].pc = "ended" =>
                ~(proc[TaskOf(c)].pc = "idle" /\ proc'[TaskOf(c)].pc # "idle")
          /\ conns[c].reader = "ended" =>
                conns'[c].delivered = conns[c].delivered]_vars

\* C23: a transport failure or close on one connection terminates only that
\* connection: a step that closes a connection's transport, or that ends an
\* activity of a connection whose transport is closed, leaves every other
\* connection as it is (streaming, with its receiver and what it has been
\* relayed) and leaves the registry and the channels unchanged
C23_OnlyThatConnectionEnds ==
    [][\A c \in Conns :
          (~conns'[c].open /\ conns'[c] # conns[c]) =>
              /\ \A d \in Conns \ {c} : conns'[d] = conns[d]
              /\ game_rooms' = game_rooms
              /\ chans' = chans]_vars

\* the client of one connection went away and its reader and relay ended;
\* the other connection of the room, which was relayed an event before the
\* closed one had subscribed, streams and has been relayed the event the
\* closed one was not
C23_Witness ==
    \E c \in Conns, d \in Conns :
        /\ ~conns[c].open
        /\ conns[c].pc = "ended" /\ conns[c].reader = "ended"
        /\ conns[d].pc = "streaming" /\ conns[d].open
        /\ conns[d].rx_chan = conns[c].rx_chan
        /\ RoomExists(conns[d].game)
        /\ Len(conns[d].delivered) = 2
        /\ conns[d].delivered[1].pos < conns[c].rx_next
        /\ conns[d].delivered[2].pos >= conns[c].rx_next

\* C24: an inbound frame that does not parse or that the repository rejects
\* yields an Error frame sent to the issuing connection only: when the
\* handler of a frame of a connected client has returned an Err, the step in
\* which the reader takes that result writes one Error frame to that client,
\* leaves the connection streaming, and changes no other connection and no
\* room
C24_ErrorFrameToIssuerOnly ==
    [][\A c \in Conns :
          (/\ conns[c].reader = "running"
           /\ conns[c].open
           /\ proc[TaskOf(c)].pc = "ret"
           /\ proc[TaskOf(c)].h # "handle_socket"
           /\ proc[TaskOf(c)].result \notin {"ok", "panic"}
           /\ proc'[TaskOf(c)].pc = "idle") =>
              /\ conns'[c].errors = conns[c].errors + 1
              /\ conns'[c].pc = conns[c].pc
              /\ conns'[c].reader = "running"
              /\ \A d \in Conns \ {c} : conns'[d] = conns[d]
              /\ game_rooms' = game_rooms]_vars

\* C25: a subscriber that has fallen behind the channel's retained messages
\* misses the overwritten ones but goes on receiving: the turn of its relay
\* in which recv reports the lag leaves it subscribed and streaming; and a
\* step that publishes to a channel waits for no subscriber and changes none
C25_LaggedSubscriberContinues ==
    [][/\ \A c \in Conns :
             (/\ conns[c].pc = "streaming"
              /\ RecvResult(c) = "Lagged"
              /\ conns'[c] # conns[c]) => conns'[c].pc = "streaming"
       /\ \A ch \in ChanIds :
             Len(chans'[ch]) > Len(chans[ch]) => conns' = conns]_vars

\* the relay of connection c has ended because recv reported the closure of
\* its channel
ObservedClosure(c) ==
    /\ conns[c].pc = "ended"
    /\ conns[c].recv = "Closed"

\* handle_socket has returned and none of the connection's tasks is left
ConnClosed(c) ==
    /\ conns[c].pc = "ended"
    /\ conns[c].reader # "running"

\* C26: when a room is torn down every relay subscribed to it observes the
\* closure of the channel and its connection proceeds to Closed, and no
\* connection subscribes again after its relay has ended
C26_TeardownClosesSubscribers ==
    /\ \A c \in Conns : ObservedClosure(c) ~> ConnClosed(c)
    /\ [][\A c \in Conns :
            conns[c].pc = "ended" =>
                /\ conns'[c].pc = "ended"
                /\ conns'[c].rx_chan = conns[c].rx_chan]_vars

\* the position of the first message connection c's Receiver was to see
SubscribedFrom(c) == conns[c].rx_next - Len(conns[c].delivered)

\* a handle_end_game that returns Ok has published GameEnded to the room,
\* which it leaves registered, and has spawned the cleanup; a room leaves
\* the registry only in a step of a spawned cleanup of a finished game
C27_PublishThenDelayedCleanup ==
    /\ \A p \in Procs :
          (proc[p].pc = "winner" /\ proc'[p].pc = "idle") =>
              LET g == proc[p].game
                  ch == game_rooms[g].sender
              IN  /\ RoomExists(g)
                  /\ game_rooms' = game_rooms
                  /\ g \in cleanups'
                  /\ Receivers(ch) # {} =>
                        /\ Len(chans'[ch]) = Len(chans[ch]) + 1
                        /\ chans'[ch][Len(chans'[ch])].val
                               = GameEnded(g, proc[p].out)
    /\ \A g \in GameIds :
          (RoomExists(g) /\ game_rooms'[g] = NoRoom) =>
              /\ g \in cleanups /\ g \notin cleanups'
              /\ Finished(g)

\* a relay that has observed the closure of its channel has relayed every
\* GameEnded the channel accepted since the connection subscribed
C27_GameEndedBeforeClosure ==
    \A c \in Conns :
        ObservedClosure(c) =>
            \A i \in 1..Len(chans[conns[c].rx_chan]) :
                (/\ i >= SubscribedFrom(c)
                 /\ chans[conns[c].rx_chan][i].val.type = "GameEnded") =>
                    \E j \in 1..Len(conns[c].delivered) :
                        conns[c].delivered[j] = chans[conns[c].rx_chan][i]

\* C27: EndGame publishes GameEnded before the room is removed and the room
\* is removed only by the delayed cleanup: every connection that is
\* subscribed when an EndGame publishes, and that does not lag, receives
\* GameEnded before it observes the closure of the channel
C27_GameEndedDrains ==
    []C27_GameEndedBeforeClosure /\ [][C27_PublishThenDelayedCleanup]_vars

\* two connections were streaming when EndGame was handled: both were
\* relayed GameEnded and then observed the closure
C27_Witness ==
    \A c \in Conns :
        /\ ObservedClosure(c)
        /\ Len(conns[c].delivered) >= 1
        /\ conns[c].delivered[Len(conns[c].delivered)].val.type = "GameEnded"

\* an activity of connection c ends, or its handle_socket returns, in this
\* step
Terminates(c) ==
    \/ conns[c].pc # "ended" /\ conns'[c].pc = "ended"
    \/ conns[c].reader = "running" /\ conns'[c].reader = "ended"
    \/ conns[c].open /\ ~conns'[c].open

\* C28: the termination of a connection, the last one of a room included,
\* never removes the room from the registry: a step in which a connection
\* terminates leaves the registry as it is, and a room leaves the registry
\* only in the step of a cleanup spawned after the game's end
C28_ConnectionLossKeepsRoom ==
    [][/\ \A c \in Conns : Terminates(c) => game_rooms' = game_rooms
       /\ \A g \in GameIds :
             (RoomExists(g) /\ ~RoomExists(g)') =>
                 /\ g \in cleanups
                 /\ Finished(g)
                 /\ conns' = conns]_vars

\* both connections of the active game have terminated, the second after the
\* first was gone, and the room is still registered
C28_Witness ==
    /\ \A c \in Conns :
          /\ conns[c].pc = "ended" /\ conns[c].reader = "ended"
          /\ ~conns[c].open
    /\ \A g \in ReqGameIds : RoomExists(g) /\ ~Finished(g)

\* C29: whenever the service publishes an event for a game the game's room
\* is registered: no handler reaches broadcast_to_game for a game without a
\* room, where the call panics
C29_PublishFindsRoom ==
    \A p \in Procs : proc[p].result # "panic"

\* ---------------------------------------------------------------------- C30
\* the user of a connection has a seat in the game
HasSeat(u, g) == \E r \in players : r.game_id = g /\ r.clerk_user_id = u

\* verify_game has returned Err to the connection's handle_socket, which has
\* not yet written the Error frame
VerificationFailed(c) ==
    /\ proc[TaskOf(c)].pc = "ret"
    /\ proc[TaskOf(c)].h = "handle_socket"
    /\ proc[TaskOf(c)].op = "none"

\* C30: a connection is verified while it is connecting and only for a game
\* that exists and is active, is attached only after that and with its user
\* seated, subscribes only when attached and streams only when subscribed,
\* and stays closed once closed; a connection whose verification fails seats
\* nobody and subscribes to nothing, and its next step writes one Error frame
\* with the verification's message and closes it, still unsubscribed
C30_ConnectionStateMachine ==
    [][\A c \in Conns :
        LET t == proc[TaskOf(c)]
            n == proc'[TaskOf(c)]
        IN  /\ (t.pc # "verified" /\ n.pc = "verified") =>
                  /\ t.pc = "idle" /\ conns[c].pc = "idle"
                  /\ \E r \in games : r.id = n.game /\ r.status = "active"
            /\ (t.pc # "attached" /\ n.pc = "attached") =>
                  /\ t.h = "handle_socket"
                  /\ t.pc = "verified" \/ (t.pc = "ret" /\ t.result = "ok")
                  /\ \E r \in players' :
                        r.game_id = n.game /\ r.clerk_user_id = n.user
            /\ (conns[c].pc # "subscribed" /\ conns'[c].pc = "subscribed") =>
                  /\ t.pc = "attached"
                  /\ conns[c].pc = "idle"
                  /\ HasSeat(t.user, t.game)
            /\ (conns[c].pc # "streaming" /\ conns'[c].pc = "streaming") =>
                  conns[c].pc = "subscribed"
            /\ conns[c].pc = "ended" => conns'[c].pc = "ended"
            /\ (~VerificationFailed(c) /\ VerificationFailed(c)') =>
                  /\ t.pc = "idle"
                  /\ n.result \in {"Game not found", "Game is not active"}
                  /\ ~\E r \in games : r.id = n.game /\ r.status = "active"
                  /\ players' = players
                  /\ conns' = conns
            /\ VerificationFailed(c) =>
                  /\ conns[c].pc = "idle" /\ conns[c].rx_chan = 0
                  /\ n # t =>
                        /\ n = Idle
                        /\ conns'[c].pc = "ended"
                        /\ conns'[c].rx_chan = 0
                        /\ conns'[c].errors = conns[c].errors + 1
                        /\ conns'[c].error_msg = t.result
                        /\ players' = players
                        /\ game_rooms' = game_rooms
      ]_vars

\* one connection streams, its client has ended the game, and the connection
\* of u2, who has no seat, was refused at verification: it is closed with one
\* Error frame and without a subscription
C30_Witness ==
    \E c, d \in Conns :
        /\ conns[c].pc = "streaming"
        /\ conns[d].pc = "ended"
        /\ conns[d].errors = 1
        /\ conns[d].error_msg = "Game is not active"
        /\ conns[d].rx_chan = 0
        /\ ~HasSeat("u2", "g1")

\* ---------------------------------------------------------------------- C31
\* the seats of user u in game g
SeatsOf(u, g) == {r \in players : r.game_id = g /\ r.clerk_user_id = u}

\* C31: on attach a user who has no seat is sent through join_game, whose
\* commit adds one seat for the user and changes no other seat; a user who
\* has a seat is not joined and the attach changes no seat, position or
\* damage entry; a connection subscribes only with exactly one seat for its
\* user in the game
C31_AttachJoinsOnce ==
    [][\A c \in Conns :
        LET t == proc[TaskOf(c)]
            n == proc'[TaskOf(c)]
        IN  /\ (t.pc = "verified" /\ n.pc = "attach") =>
                  /\ SeatsOf(t.user, t.game) = {}
                  /\ players' = players
            /\ (t.pc = "verified" /\ n.pc = "attached") =>
                  /\ Cardinality(SeatsOf(t.user, t.game)) = 1
                  /\ players' = players
                  /\ commander_damage' = commander_damage
            /\ (t.h = "handle_socket" /\ t.pc = "join" /\ n.pc = "ret"
                   /\ n.result = "ok") =>
                  /\ SeatsOf(t.user, t.game) = {}
                  /\ players \subseteq players'
                  /\ Cardinality(players' \ players) = 1
                  /\ \A r \in players' \ players :
                        /\ r.clerk_user_id = t.user
                        /\ r.game_id = t.game
                        /\ r.id = n.out
            /\ (t.h = "handle_socket" /\ t.pc = "join" /\ n.pc = "ret"
                   /\ n.result # "ok") =>
                  players' = players
            /\ (conns[c].pc # "subscribed" /\ conns'[c].pc = "subscribed") =>
                  /\ Cardinality(SeatsOf(t.user, t.game)) = 1
                  /\ players' = players
      ]_vars

\* both connections have subscribed to g1, one as the seated creator u1 and
\* one as u2, who was joined by the attach: two seats, at positions 1 and 2
C31_Witness ==
    /\ \A c \in Conns : conns[c].pc \in {"subscribed", "streaming"}
    /\ Cardinality(SeatsOf("u1", "g1")) = 1
    /\ Cardinality(SeatsOf("u2", "g1")) = 1
    /\ {r.position : r \in players} = {1, 2}
    /\ Cardinality(players) = 2

\* ---------------------------------------------------------------------- C32
\* leave_game is called for game g and user u in this step
LeaveCalled(p) ==
    /\ proc[p].op # "leave_game"
    /\ proc'[p].op = "leave_game"

\* what the transaction of the call finds: the game is missing, the game is
\* finished, the user has no seat in it
LeaveGameMissing(p) == \A r \in games : r.id # proc'[p].game

LeaveGameFinished(p) ==
    \E r \in games : r.id = proc'[p].game /\ r.status = "finished"

LeaveUserUnseated(p) ==
    \A r \in players :
        ~(r.game_id = proc'[p].game /\ r.clerk_user_id = proc'[p].user)

\* C32 as stated: leave_game fails with NotFound, and changes nothing, when
\* the game does not exist, the game is finished or the user is not seated
C32_LeaveNotFound ==
    [][\A p \in Procs :
        (/\ LeaveCalled(p)
         /\ LeaveGameMissing(p) \/ LeaveGameFinished(p) \/ LeaveUserUnseated(p))
        => /\ proc'[p].pc = "ret"
           /\ ErrorKind(proc'[p].result) \in {"GameNotFound", "PlayerNotFound"}
           /\ UNCHANGED storeVars]_vars

\* C32: leave_game fails, and changes nothing, with GameNotFound when the
\* game does not exist, with the BadRequest "Cannot leave finished game" when
\* the game is finished, and with PlayerNotFound when the game is active and
\* the user is not seated in it
C32_LeaveRefused ==
    [][\A p \in Procs :
        (/\ LeaveCalled(p)
         /\ LeaveGameMissing(p) \/ LeaveGameFinished(p) \/ LeaveUserUnseated(p))
        => /\ proc'[p].pc = "ret"
           /\ UNCHANGED storeVars
           /\ LeaveGameMissing(p) =>
                 ErrorKind(proc'[p].result) = "GameNotFound"
           /\ LeaveGameFinished(p) =>
                 /\ proc'[p].result = "Cannot leave finished game"
                 /\ ErrorKind(proc'[p].result) = "BadRequest"
           /\ (~LeaveGameMissing(p) /\ ~LeaveGameFinished(p)) =>
                 ErrorKind(proc'[p].result) = "PlayerNotFound"]_vars

\* a seated user's leave_game on the finished game has been refused, and the
\* user still has the seat
C32_Witness ==
    \E p \in Procs :
        /\ proc[p].pc = "ret"
        /\ proc[p].op = "leave_game"
        /\ proc[p].result = "Cannot leave finished game"
        /\ \E r \in players :
              r.game_id = proc[p].game /\ r.clerk_user_id = proc[p].user
        /\ \E r \in games : r.id = proc[p].game /\ r.status = "finished"

\* ---------------------------------------------------------------------- C33
\* the LifeUpdate event that announces a row of life_changes
LifeEventOf(row) ==
    LifeUpdate(row.game_id, row.player_id, row.new_life_total,
               row.change_amount)

\* the messages the connection's receiver has handed to sender_task or still
\* holds for it
Received(c) ==
    {conns[c].delivered[i] : i \in 1..Len(conns[c].delivered)}
        \cup {chans[conns[c].rx_chan][k] :
                k \in conns[c].rx_next..Len(chans[conns[c].rx_chan])}

\* handlers that have committed a life change and have not yet published it
Publishing(e) ==
    {p \in Procs :
        /\ proc[p].pc = "ret"
        /\ proc[p].h = "handle_life_update"
        /\ proc[p].result = "ok"
        /\ LifeUpdate(proc[p].game, proc[p].player, proc[p].out,
                      proc[p].amount) = e}

\* the connection relays from a room that is still registered and has not
\* lagged behind it
Relaying(c) ==
    /\ conns[c].pc = "streaming"
    /\ ~Closed(conns[c].rx_chan)
    /\ conns[c].rx_next > Len(chans[conns[c].rx_chan]) - ChannelCapacity

\* C33: the connection subscribes before send_initial_game_state reads the
\* snapshot, so every life change committed after the snapshot read is, once
\* its handler has published it, a message the connection's receiver has
\* handed on or holds, behind the snapshot: none is lost between the snapshot
\* and the subscription
C33_NoGapAfterSnapshot ==
    \A c \in Conns :
        Relaying(c) =>
            \A i \in (conns[c].snapshot + 1)..Len(life_changes) :
                LET e == LifeEventOf(life_changes[i])
                IN  Cardinality({j \in (conns[c].snapshot + 1)..Len(life_changes) :
                                    LifeEventOf(life_changes[j]) = e})
                        <= Cardinality({m \in Received(c) : m.val = e})
                           + Cardinality(Publishing(e))

\* a connection read its snapshot before the other connection's UpdateLife
\* was committed, and has been sent the LifeUpdate of that change
C33_Witness ==
    \E c \in Conns :
        /\ Relaying(c)
        /\ conns[c].snapshot = 0
        /\ Len(life_changes) = 1
        /\ Len(conns[c].delivered) = 1
        /\ conns[c].delivered[1].val = LifeEventOf(life_changes[1])
        /\ \E d \in Conns \ {c} : conns[d].pc = "streaming"

\* ---------------------------------------------------------------------- C34
\* the connection holds a subscription to the room of game g
SubscribedTo(c, g) ==
    /\ conns[c].pc \in {"subscribed", "streaming"}
    /\ conns[c].game = g

\* once an EndGame has finished the game its room is eventually removed from
\* the registry
C34_RoomEventuallyRemoved ==
    \A g \in GameIds : Finished(g) ~> ~RoomExists(g)

\* C34: after an EndGame is accepted the game's room is eventually removed
\* from the registry and every connection subscribed to it eventually reaches
\* Closed
C34_EndGameTearsDown ==
    /\ C34_RoomEventuallyRemoved
    /\ \A c \in Conns : \A g \in GameIds :
          (Finished(g) /\ SubscribedTo(c, g)) ~> ConnClosed(c)

\* ---------------------------------------------------------------------- C35
\* C35: the CommanderDamageUpdate event that handle_set_commander_damage
\* publishes carries damage_amount = new_damage - the damage that was stored
\* for the entry before the update
C35_SetDamageDelta ==
    [][\A p \in Procs :
        (/\ proc[p].h = "handle_set_commander_damage"
         /\ proc[p].pc = "previous"
         /\ proc'[p] # proc[p])
        => proc[p].amount = proc[p].dmg - proc[p].before]_vars

\* ---------------------------------------------------------------------- C36
\* the handler of an UpdateCommanderDamage frame has written its total and
\* has not yet published it
DeltaWritten(p) ==
    /\ proc[p].h = "handle_update_commander_damage"
    /\ proc[p].pc = "ret"
    /\ proc[p].result = "ok"

\* C36: when the first two UpdateCommanderDamage requests on the entry, d1
\* and d2, are in progress together and both have succeeded, the entry, which
\* held 0, holds d1 + d2
C36_NoLostDelta ==
    (served = 2 /\ \A p \in Procs : DeltaWritten(p)) =>
        DamageOf("g1", SeededId(1), SeededId(2), 1)
            = proc["a"].amount + proc["b"].amount

\* ---------------------------------------------------------------------- C37
\* C37: when a connection that has passed verification and is attached calls
\* get_game_receiver, the room of its game is registered and the connection
\* obtains its subscription
C37_VerifiedSubscribes ==
    [][\A c \in Conns :
        (/\ proc[TaskOf(c)].pc = "attached"
         /\ conns[c].pc = "idle"
         /\ conns'[c] # conns[c])
        => /\ RoomExists(proc[TaskOf(c)].game)
           /\ conns'[c].pc = "subscribed"
           /\ conns'[c].rx_chan = game_rooms[proc[TaskOf(c)].game].sender]_vars

\* ---------------------------------------------------------------------- C38
\* the handlers of UpdateLife frames and of update_life requests
LifeHandlers == {"handle_life_update", "update_life"}

\* C38: a life request for game G changes the life only of players seated in
\* G, and the LifeUpdate event it publishes into G's room names a player
\* seated in G
C38_LifeUpdateWithinGame ==
    [][\A p \in Procs :
        /\ (/\ proc'[p].h \in LifeHandlers
            /\ proc[p].op # "update_player_life"
            /\ proc'[p].op = "update_player_life")
           => \A r \in players : r.game_id # proc'[p].game => r \in players'
        /\ (/\ proc[p].h \in LifeHandlers
            /\ proc[p].pc = "ret"
            /\ proc[p].result = "ok"
            /\ proc'[p] = Idle)
           => \E r \in players :
                 r.id = proc[p].player /\ r.game_id = proc[p].game]_vars

ChangesOf(pid) ==
    {i \in 1..Len(life_changes) : life_changes[i].player_id = pid}

\* C40: in every state, the life of each seated player is the starting life
\* of the player's game plus the sum of the change_amount of the player's
\* LifeChange rows, and the most recent of these rows, if there is one, holds
\* the player's life as its new_life_total
C40_LifeMatchesLog ==
    \A r \in players : \A g \in games :
        r.game_id = g.id =>
            /\ r.current_life
                  = g.starting_life + SumOfChanges(life_changes, r.id)
            /\ \A i \in ChangesOf(r.id) :
                  (\A j \in ChangesOf(r.id) : j <= i) =>
                      life_changes[i].new_life_total = r.current_life

\* two players are seated; the life of the first was changed by -50 and by 5,
\* in some order, and its last row holds its life, and the second, who has no
\* row, is at the starting life
C40_Witness ==
    /\ {1, 2} \subseteq {r.id : r \in players}
    /\ ChangesOf(1) = {1, 2}
    /\ {life_changes[1].change_amount, life_changes[2].change_amount}
          = {-50, 5}
    /\ LifeOf(players, 1) = -5
    /\ life_changes[2].new_life_total = -5
    /\ LifeOf(players, 2) = 40

====
